---- MODULE Spec2Model ----
(***************************************************************************)
(* Verification model of the hybrid retrieval and conversation-memory core *)
(* (conversation_memory.py, web_search_integration.py).                    *)
(*                                                                         *)
(* Text is modelled as a sequence of one-character strings, so that len(), *)
(* slicing, lower() and substring search are computed as Python computes   *)
(* them.  A non-ASCII character is written as the name of its code point   *)
(* ("u65f6" is one character).                                             *)
(***************************************************************************)
EXTENDS Integers, Sequences, FiniteSets, TLC

VARIABLES
    max_history,            \* ConversationMemory.max_history
    max_context_length,     \* ConversationMemory.max_context_length
    conversation_history,   \* ConversationMemory.conversation_history
    current_session_id,     \* ConversationMemory.current_session_id
    memory_file,            \* the file named by ConversationMemory.memory_file
    clock,                  \* the wall clock read by datetime.now(), in ticks
    last,                   \* the last call made on the memory and what it returned
    enable_web_search,      \* HybridRAGSystem.enable_web_search
    index_result,           \* what local_retriever.get_relevant_documents returns
    engine_results,         \* what each engine's search returns, in registration order
    retrieval,              \* the last search_and_retrieve call and what it returned
    threads,                \* the requests running add_conversation_turn, one per thread
    append_log,             \* the turns in the order in which line 60 appended them
    similarity_result,      \* what vector_retriever.invoke returns
    diversity_result,       \* what mmr_retriever.invoke returns
    retrieved,              \* the last get_relevant_documents call and what it returned
    passages,               \* the passage list handed to the quality analyzers
    report,                 \* the last quality report
    enhanced,               \* the last _enhance_query call and what it returned
    reply                   \* the last chat request and what it returned

memVars == << max_history, max_context_length, conversation_history,
              current_session_id, memory_file, clock, last >>

hybVars == << enable_web_search, index_result, engine_results, retrieval >>

conVars == << threads, append_log >>

retVars == << similarity_result, diversity_result, retrieved >>

quaVars == << passages, report >>

appVars == << enhanced, reply >>

vars == << memVars, hybVars, conVars, retVars, quaVars, appVars >>

-----------------------------------------------------------------------------
(* Bounds of the model *)

MaxHist == 2          \* max_history ranges over 0..MaxHist
MaxTurns == 3         \* add_conversation_turn is explored while len(history) < MaxTurns
MaxClock == 2         \* the clock is explored up to this tick
TicksPerSecond == 2   \* clock ticks per second (sub-second resolution of datetime.now())
CtxTurns == 6         \* turns held by the memory whose context assembly is explored
MaxLocal == 9         \* documents the local retriever returns for a request
MaxVariants == 1      \* of them, documents that repeat the prefix of the first
MaxShort == 1         \* results of the engines with a text of at most 50 characters

-----------------------------------------------------------------------------
(* Python primitives *)

Min(a, b) == IF a <= b THEN a ELSE b
Max(a, b) == IF a >= b THEN a ELSE b

\* Optional[T]: None is the empty sequence, a value v is << v >>
None == << >>
Some(v) == << v >>

\* s[:n] for n >= 0
SliceTo(s, n) == SubSeq(s, 1, Min(n, Len(s)))

\* s[-n:] for n >= 0; -0 is 0, so s[-0:] is s[0:], the whole sequence
SliceLast(s, n) == IF n = 0 THEN s ELSE SubSeq(s, Max(1, Len(s) - n + 1), Len(s))

\* needle in haystack
Contains(haystack, needle) ==
    \E i \in 1..(Len(haystack) - Len(needle) + 1) :
        SubSeq(haystack, i, i + Len(needle) - 1) = needle

UpperCase == << "A","B","C","D","E","F","G","H","I","J","K","L","M",
                "N","O","P","Q","R","S","T","U","V","W","X","Y","Z" >>
LowerCase == << "a","b","c","d","e","f","g","h","i","j","k","l","m",
                "n","o","p","q","r","s","t","u","v","w","x","y","z" >>

LowerChar(c) ==
    IF \E i \in 1..26 : UpperCase[i] = c
    THEN LowerCase[CHOOSE i \in 1..26 : UpperCase[i] = c]
    ELSE c

\* str.lower()
Lower(s) == [i \in 1..Len(s) |-> LowerChar(s[i])]

Range(s) == { s[i] : i \in 1..Len(s) }

\* the orders in which list(set(xs)) can enumerate the distinct elements of xs
ListOfSet(xs) ==
    LET S == Range(xs)
        n == Cardinality(S)
    IN  { p \in [1..n -> S] : \A i, j \in 1..n : i # j => p[i] # p[j] }

\* the sequence f, evaluated once (a function expression is otherwise
\* evaluated again at each application)
Tuple(f) == SubSeq(f, 1, Len(f))

RECURSIVE SumLen(_)
SumLen(ss) == IF ss = << >> THEN 0 ELSE Len(Head(ss)) + SumLen(Tail(ss))

RECURSIVE Join(_, _)
\* sep.join(ss)
Join(sep, ss) ==
    IF ss = << >> THEN << >>
    ELSE IF Len(ss) = 1 THEN ss[1]
    ELSE ss[1] \o sep \o Join(sep, Tail(ss))

Digits == << "0","1","2","3","4","5","6","7","8","9" >>

\* "%02d" for 0 <= n < 100
TwoDigits(n) == << Digits[(n \div 10) + 1], Digits[(n % 10) + 1] >>

-----------------------------------------------------------------------------
(* datetime *)

\* datetime.now(): the clock value, a count of ticks
\* datetime.isoformat(): the fraction is omitted when it is zero
isoformat(t) ==
    IF t % TicksPerSecond = 0
    THEN << t \div TicksPerSecond >>
    ELSE << t \div TicksPerSecond, t % TicksPerSecond >>

\* datetime.fromisoformat()
fromisoformat(s) ==
    IF Len(s) = 1 THEN s[1] * TicksPerSecond ELSE s[1] * TicksPerSecond + s[2]

\* strftime("%Y%m%d_%H%M%S"): the time truncated to whole seconds
_generate_session_id(t) == t \div TicksPerSecond

\* strftime("%H:%M")
strftime_HM(t) ==
    LET sec == t \div TicksPerSecond
    IN  TwoDigits((sec \div 3600) % 24) \o << ":" >> \o TwoDigits((sec \div 60) % 60)

-----------------------------------------------------------------------------
(* Keyword extraction and summary *)

english_grammar_terms ==
    << <<"p", "r", "e", "s", "e", "n", "t", " ", "p", "e", "r", "f", "e", "c", "t">>,
       <<"p", "a", "s", "t", " ", "t", "e", "n", "s", "e">>,
       <<"f", "u", "t", "u", "r", "e", " ", "t", "e", "n", "s", "e">>,
       <<"c", "o", "n", "d", "i", "t", "i", "o", "n", "a", "l", "s">>,
       <<"a", "r", "t", "i", "c", "l", "e", "s">>,
       <<"p", "r", "e", "p", "o", "s", "i", "t", "i", "o", "n", "s">>,
       <<"c", "o", "n", "j", "u", "n", "c", "t", "i", "o", "n", "s">>,
       <<"v", "e", "r", "b", "s">>,
       <<"n", "o", "u", "n", "s">>,
       <<"a", "d", "j", "e", "c", "t", "i", "v", "e", "s">>,
       <<"a", "d", "v", "e", "r", "b", "s">>,
       <<"p", "r", "o", "n", "o", "u", "n", "s">>,
       <<"t", "e", "n", "s", "e">>,
       <<"a", "s", "p", "e", "c", "t">>,
       <<"g", "r", "a", "m", "m", "a", "r">>,
       <<"s", "y", "n", "t", "a", "x">>,
       <<"c", "l", "a", "u", "s", "e">>,
       <<"p", "h", "r", "a", "s", "e">>,
       <<"s", "e", "n", "t", "e", "n", "c", "e">> >>

chinese_grammar_terms ==
    << <<"u73b0", "u5728", "u5b8c", "u6210", "u65f6">>,
       <<"u8fc7", "u53bb", "u65f6">>,
       <<"u5c06", "u6765", "u65f6">>,
       <<"u865a", "u62df", "u8bed", "u6c14">>,
       <<"u51a0", "u8bcd">>,
       <<"u4ecb", "u8bcd">>,
       <<"u8fde", "u8bcd">>,
       <<"u52a8", "u8bcd">>,
       <<"u540d", "u8bcd">>,
       <<"u5f62", "u5bb9", "u8bcd">>,
       <<"u526f", "u8bcd">>,
       <<"u4ee3", "u8bcd">>,
       <<"u65f6", "u6001">>,
       <<"u4f53", "u6001">>,
       <<"u8bed", "u6cd5">>,
       <<"u53e5", "u6cd5">>,
       <<"u4ece", "u53e5">>,
       <<"u77ed", "u8bed">>,
       <<"u53e5", "u5b50">> >>

topics ==
    << <<"u65f6", "u6001">>,
       <<"u8bed", "u6cd5">>,
       <<"u51a0", "u8bcd">>,
       <<"u865a", "u62df", "u8bed", "u6c14">>,
       <<"u6761", "u4ef6", "u53e5">>,
       <<"u4ece", "u53e5">> >>

\* the terms found in the text, in vocabulary order (the list before list(set(...)))
MatchedTerms(text) ==
    LET text_lower == Lower(text)
    IN  SelectSeq(english_grammar_terms \o chinese_grammar_terms,
                  LAMBDA term : Contains(text_lower, Lower(term)))

\* _extract_keywords returns list(set(keywords)): the matched terms in an
\* order that the set's iteration chooses
_extract_keywords(text) == ListOfSet(MatchedTerms(text))

_extract_main_topic(text) ==
    LET text_lower == Lower(text)
        hits == SelectSeq(topics, LAMBDA topic : Contains(text_lower, topic))
    IN  IF hits # << >> THEN hits[1] ELSE <<"u82f1", "u8bed", "u8bed", "u6cd5">>

_generate_summary(user_query, ai_response) ==
    <<"u7528", "u6237", "u8be2", "u95ee", "u4e86", "u5173", "u4e8e">> \o _extract_main_topic(user_query)
        \o <<"u7684", "u95ee", "u9898">>

-----------------------------------------------------------------------------
(* Inputs *)

\* "xianzai wanchengshi de yongfa shi shenme?" (what is the present perfect used for)
QPerfect == <<"u73b0", "u5728", "u5b8c", "u6210", "u65f6", "u7684", "u7528", "u6cd5", "u662f", "u4ec0", "u4e48", "uff1f">>
\* "neng gei yixie lizi ma?" (can you give some examples)
QExamples == <<"u80fd", "u7ed9", "u4e00", "u4e9b", "u4f8b", "u5b50", "u5417", "uff1f">>
QPast == <<"P", "a", "s", "t", " ", "T", "e", "n", "s", "e", "?">>
RPerfect == <<"u73b0", "u5728", "u5b8c", "u6210", "u65f6", "u8868", "u793a", "u8fc7", "u53bb", "u7684", "u52a8", "u4f5c">>
RExamples == <<"u4f8b", "u5982", " ", "I", " ", "h", "a", "v", "e", " ", "l", "i", "v", "e", "d", " ", "h", "e", "r", "e">>
RPast == <<"p", "a", "s", "t", " ", "t", "e", "n", "s", "e", " ", "u8868", "u793a", "u8fc7", "u53bb">>

Queries == { QPerfect, QExamples, QPast }

\* the (user_query, ai_response, metadata, retrieved_docs) of the calls explored
Exchanges ==
    { [user_query |-> QPerfect, ai_response |-> RPerfect,
       metadata |-> None, retrieved_docs |-> None],
      [user_query |-> QExamples, ai_response |-> RExamples,
       metadata |-> Some({ << "num_docs", 1 >> }),
       retrieved_docs |-> Some(<< "unknown" >>)],
      [user_query |-> QPast, ai_response |-> RPast,
       metadata |-> Some({ }), retrieved_docs |-> Some(<< >>)] }

\* "yufa he shitai" (grammar and tenses), "guanci, jieci, lianci" (articles,
\* prepositions, conjunctions), "yufa: guanci yu dongci" (grammar: articles
\* and verbs)
RGrammar == <<"u8bed", "u6cd5", "u548c", "u65f6", "u6001">>
RParts == <<"u51a0", "u8bcd", "u3001", "u4ecb", "u8bcd", "u3001", "u8fde", "u8bcd">>
RArticles == <<"u8bed", "u6cd5", "uff1a", "u51a0", "u8bcd", "u4e0e", "u52a8", "u8bcd">>

\* exchanges about several terms of the vocabulary each
StatsExchanges ==
    { [user_query |-> QExamples, ai_response |-> RGrammar,
       metadata |-> None, retrieved_docs |-> None],
      [user_query |-> QExamples, ai_response |-> RParts,
       metadata |-> None, retrieved_docs |-> None],
      [user_query |-> QExamples, ai_response |-> RArticles,
       metadata |-> None, retrieved_docs |-> None] }

\* x or default, for a dict
OrDict(x) == IF x = None \/ x[1] = { } THEN { } ELSE x[1]
\* x or default, for a list
OrList(x) == IF x = None \/ x[1] = << >> THEN << >> ELSE x[1]
\* x or default, for an int
OrInt(x, default) == IF x = None \/ x[1] = 0 THEN default ELSE x[1]

-----------------------------------------------------------------------------
(* ConversationMemory *)

\* a hybrid retrieval system that has served no request
NoRetrieval ==
    /\ enable_web_search = TRUE
    /\ index_result = << >>
    /\ engine_results = << << >>, << >> >>
    /\ retrieval = [ state |-> "none" ]

\* the worker threads of the application, none of them in a request
Threads == { 1, 2 }
NoRequests ==
    /\ threads = [ t \in Threads |-> [ pc |-> "idle" ] ]
    /\ append_log = << >>

\* a retriever that has served no request
NoRetrieved ==
    /\ similarity_result = << >>
    /\ diversity_result = << >>
    /\ retrieved = [ state |-> "none" ]

\* no passage list analyzed
NoReport ==
    /\ passages = << >>
    /\ report = [ state |-> "none" ]

\* no query enhanced and no chat request served
NoReply ==
    /\ enhanced = [ state |-> "none" ]
    /\ reply = [ state |-> "none" ]

\* the default max_history
DefaultMaxHistory == 10
\* max_context_length values a memory is constructed with; 2000 is the default
DefaultMaxContextLength == 2000
ContextLengths == { 120, DefaultMaxContextLength }

\* _extract_keywords(user_query + " " + ai_response), tabulated over the inputs
KeywordsOf ==
    [ e \in Exchanges \cup StatsExchanges |->
        _extract_keywords(e.user_query \o << " " >> \o e.ai_response) ]

\* the keywords in the order of the vocabulary, tabulated over the inputs
VocabularyOrder ==
    [ e \in Exchanges \cup StatsExchanges |->
        MatchedTerms(e.user_query \o << " " >> \o e.ai_response) ]

\* _generate_summary(user_query, ai_response), tabulated over the inputs
SummaryOf ==
    [ e \in Exchanges \cup StatsExchanges |->
        _generate_summary(e.user_query, e.ai_response) ]

\* the ConversationTurn built by add_conversation_turn
ConversationTurn(e, now, session_id, keywords) ==
    [ user_query      |-> e.user_query,
      ai_response     |-> e.ai_response,
      timestamp       |-> now,
      session_id      |-> session_id,
      metadata        |-> OrDict(e.metadata),
      retrieved_docs  |-> OrList(e.retrieved_docs),
      keywords        |-> keywords,
      context_summary |-> SummaryOf[e] ]

\* history.append(turn), then the truncation to the last max_history turns
AppendTruncate(history, turn, mh) ==
    LET appended == Append(history, turn)
    IN  IF Len(appended) > mh THEN SliceLast(appended, mh) ELSE appended

\* the record _save_history writes for one turn
turn_dict(turn) ==
    [ user_query      |-> turn.user_query,
      ai_response     |-> turn.ai_response,
      timestamp       |-> isoformat(turn.timestamp),
      session_id      |-> turn.session_id,
      metadata        |-> turn.metadata,
      retrieved_docs  |-> turn.retrieved_docs,
      context_summary |-> turn.context_summary,
      keywords        |-> turn.keywords ]

\* the ConversationTurn _load_history builds from one record
turn_of_dict(d) ==
    [ user_query      |-> d.user_query,
      ai_response     |-> d.ai_response,
      timestamp       |-> fromisoformat(d.timestamp),
      session_id      |-> d.session_id,
      metadata        |-> d.metadata,
      retrieved_docs  |-> d.retrieved_docs,
      context_summary |-> d.context_summary,
      keywords        |-> d.keywords ]

NoFile == [ state |-> "absent", data |-> << >> ]
CorruptFile == [ state |-> "corrupt", data |-> << >> ]

\* what the storage can do with one write
SaveOutcomes == { "written", "open_failed", "dump_failed" }

\* the exception raised inside the try block of _save_history: open() fails
\* with an OSError, json.dump with an OSError or, for a value it cannot
\* serialize, a TypeError
save_exception(outcome) ==
    CASE outcome = "written" -> None
      [] outcome = "open_failed" -> Some("PermissionError")
      [] outcome = "dump_failed" -> Some("TypeError")

\* the exception raised inside the try block of _load_history: json.load
\* fails on a truncated document
load_exception(file) ==
    IF file.state = "corrupt" THEN Some("JSONDecodeError") ELSE None

\* the classes of the exceptions above and their bases
ExceptionBases ==
    [ PermissionError |-> { "PermissionError", "OSError", "Exception" },
      ConnectionError |-> { "ConnectionError", "OSError", "Exception" },
      Timeout         |-> { "Timeout", "RequestException", "OSError", "Exception" },
      TypeError       |-> { "TypeError", "Exception" },
      ValueError      |-> { "ValueError", "Exception" },
      JSONDecodeError |-> { "JSONDecodeError", "ValueError", "Exception" } ]

\* a handler that catches the errors of the operating system only
except_OSError(exc) ==
    IF exc # None /\ "OSError" \in ExceptionBases[exc[1]] THEN None ELSE exc

\* try: ... except Exception as e: print(...): the exception that leaves the
\* statement
except_Exception(exc) ==
    IF exc # None /\ "Exception" \in ExceptionBases[exc[1]] THEN None ELSE exc

\* a storage that appends the newest turn to the document it finds instead
\* of rewriting the document
_save_history_appending(history, file, outcome) ==
    CASE outcome = "written" ->
            [ state |-> "document",
              data  |-> IF history = << >> THEN file.data
                        ELSE Append(file.data, turn_dict(history[Len(history)])) ]
      [] outcome = "open_failed" -> file
      [] outcome = "dump_failed" -> CorruptFile

\* _save_history: the file after the call.  The document is rewritten in
\* full; a failure of open() leaves the file as it was, a failure inside
\* json.dump leaves a truncated document; both are caught and logged.
_save_history(history, file, outcome) ==
    CASE outcome = "written" ->
            [ state |-> "document",
              data  |-> [ i \in 1..Len(history) |-> turn_dict(history[i]) ] ]
      [] outcome = "open_failed" -> file
      [] outcome = "dump_failed" -> CorruptFile

\* _load_history: the history after construction over the file
_load_history(file, mh) ==
    IF file.state = "document"
    THEN LET recent == SliceLast(file.data, mh)
         IN  [ i \in 1..Len(recent) |-> turn_of_dict(recent[i]) ]
    ELSE << >>

\* the file is the mirror of the history (no file stands for no turns)
InStep(history, file) ==
    \/ file = _save_history(history, file, "written")
    \/ file = NoFile /\ history = << >>

\* add_conversation_turn(user_query, ai_response, metadata, retrieved_docs).
\* d is the time that passed since the clock was last read, keywords the
\* order in which list(set(...)) enumerated the keywords, outcome what the
\* storage did with the write.
add_conversation_turn(e, d, keywords, outcome) ==
    /\ keywords \in KeywordsOf[e]
    /\ LET now == clock + d
           turn == ConversationTurn(e, now, current_session_id, keywords)
           history == AppendTruncate(conversation_history, turn, max_history)
       IN  /\ clock' = now
           /\ conversation_history' = history
           /\ memory_file' = _save_history(history, memory_file, outcome)
           /\ last' = [ op |-> "add", outcome |-> outcome,
                        raised |-> except_Exception(save_exception(outcome)),
                        overflow |-> Len(conversation_history) + 1 > max_history,
                        stale |-> ~InStep(conversation_history, memory_file) ]
    /\ UNCHANGED << max_history, max_context_length, current_session_id >>
    /\ UNCHANGED << hybVars, conVars, retVars, quaVars, appVars >>

clear_history(d) ==
    /\ clock' = clock + d
    /\ conversation_history' = << >>
    /\ current_session_id' = _generate_session_id(clock + d)
    /\ memory_file' = NoFile
    /\ last' = [ op |-> "clear" ]
    /\ UNCHANGED << max_history, max_context_length >>
    /\ UNCHANGED << hybVars, conVars, retVars, quaVars, appVars >>

\* ConversationMemory(max_history = mh, max_context_length = mcl) constructed
\* over the file a previous instance left
ConversationMemory(mh, mcl, d) ==
    /\ clock' = clock + d
    /\ max_history' = mh
    /\ max_context_length' = mcl
    /\ current_session_id' = _generate_session_id(clock + d)
    /\ conversation_history' = _load_history(memory_file, mh)
    /\ last' = [ op |-> "construct",
                 raised |-> except_Exception(load_exception(memory_file)) ]
    /\ UNCHANGED memory_file
    /\ UNCHANGED << hybVars, conVars, retVars, quaVars, appVars >>

Init ==
    /\ max_history \in 0..MaxHist
    /\ max_context_length = DefaultMaxContextLength
    /\ clock = 0
    /\ current_session_id = _generate_session_id(0)
    /\ memory_file = NoFile
    /\ conversation_history = _load_history(NoFile, max_history)
    /\ last = [ op |-> "construct", raised |-> None ]
    /\ NoRetrieval
    /\ NoRequests
    /\ NoRetrieved
    /\ NoReport
    /\ NoReply

Next ==
    \/ \E e \in Exchanges, d \in 0..1, outcome \in SaveOutcomes :
          \E keywords \in KeywordsOf[e] :
              /\ Len(conversation_history) < MaxTurns
              /\ clock + d <= MaxClock
              /\ add_conversation_turn(e, d, keywords, outcome)
    \/ \E d \in 0..1 :
          /\ clock + d <= MaxClock
          /\ clear_history(d)
    \/ \E mh \in 0..MaxHist, d \in 0..1 :
          /\ clock + d <= MaxClock
          /\ ConversationMemory(mh, max_context_length, d)

Spec == Init /\ [][Next]_vars

-----------------------------------------------------------------------------
(* Context assembly *)

\* list.index(turn), 0-based: the first position that holds an equal turn
IndexOf(history, turn) ==
    (CHOOSE i \in 1..Len(history) :
        /\ history[i] = turn
        /\ \A j \in 1..(i - 1) : history[j] # turn) - 1

\* the total_score _get_relevant_context gives a turn
total_score(history, current_keywords, turn) ==
    LET overlap == Cardinality(current_keywords \cap Range(turn.keywords))
        recency_score == Len(history) - IndexOf(history, turn)
    IN  overlap * 2 + recency_score

\* list.sort(key = score, reverse = True) is stable: an item is placed after
\* the items that score more and after the items that score the same and
\* came before it
SortDescending(items) ==
    LET place(k) ==
            1 + Cardinality({ m \in 1..Len(items) : items[m][1] > items[k][1] })
              + Cardinality({ m \in 1..(k - 1) : items[m][1] = items[k][1] })
    IN  Tuple([ p \in 1..Len(items) |->
                  items[CHOOSE k \in 1..Len(items) : place(k) = p] ])

\* the turns of the window are the last ContextWindow turns of the history
ContextWindow == 5

\* _get_relevant_context: the turns of the window, ranked.  A turn is named
\* by its position in the history (the list holds references to the turns).
_get_relevant_context(history, current_keywords) ==
    LET first == Len(history) - Len(SliceLast(history, ContextWindow)) + 1
        scored_turns ==
            Tuple([ k \in 1..(Len(history) - first + 1) |->
                << total_score(history, current_keywords, history[first + k - 1]),
                   first + k - 1 >> ])
        sorted == SortDescending(scored_turns)
    IN  Tuple([ k \in 1..Len(sorted) |-> sorted[k][2] ])

_format_context_turn(turn) ==
    <<"*", "*", "[">> \o strftime_HM(turn.timestamp)
        \o <<"]", " ", "u7528", "u6237", ":", "*", "*", " ">> \o turn.user_query
        \o <<"\n", "*", "*", "u52a9", "u624b", ":", "*", "*", " ">> \o turn.ai_response

\* the loop of get_context_for_query: a snippet is appended while the
\* running length stays within max_length, and the loop breaks at the first
\* snippet that would take it over
context_parts(snippets, max_length) ==
    LET running(k) == SumLen(SubSeq(snippets, 1, k))
        n == Cardinality({ k \in 1..Len(snippets) :
                             \A m \in 1..k : running(m) <= max_length })
    IN  SubSeq(snippets, 1, n)

RECURSIVE Str(_)
\* str(n) for n >= 0
Str(n) == IF n < 10 THEN << Digits[n + 1] >>
          ELSE Str(n \div 10) \o << Digits[(n % 10) + 1] >>

context_header(n) ==
    <<"u1f4dd", " ", "*", "*", "u5bf9", "u8bdd", "u5386", "u53f2", " ", "(", "u6700", "u8fd1">>
        \o Str(n) \o <<"u8f6e", ")", ":", "*", "*", "\n", "\n">>

\* set(_extract_keywords(current_query)), tabulated over the queries
QueryKeywords ==
    [ q \in Queries |-> Range(CHOOSE ks \in _extract_keywords(q) : TRUE) ]

\* the max_length arguments explored; None is the argument left out
MaxLengths == { None, Some(0), Some(50), Some(110) }

\* what get_context_for_query returns, with the ranking and the snippets it
\* was assembled from
context_result(current_query, max_length, relevant, parts) ==
    [ op |-> "context", current_query |-> current_query,
      max_length |-> max_length, relevant |-> relevant,
      context_parts |-> parts,
      result |-> IF parts = << >> THEN << >>
                 ELSE context_header(Len(parts)) \o Join(<< "\n", "\n" >>, parts) ]

context_of(history, current_query, max_length, limit, relevant) ==
    context_result(current_query, max_length, relevant,
        context_parts(Tuple([ k \in 1..Len(relevant) |->
                                _format_context_turn(history[relevant[k]]) ]),
                      limit))

\* get_context_for_query(current_query, max_length)
get_context_for_query(current_query, max_length) ==
    /\ last' =
        IF conversation_history = << >>
        THEN context_result(current_query, max_length, << >>, << >>)
        ELSE context_of(conversation_history, current_query, max_length,
                        OrInt(max_length, max_context_length),
                        _get_relevant_context(conversation_history,
                                              QueryKeywords[current_query]))
    /\ UNCHANGED << max_history, max_context_length, conversation_history,
                    current_session_id, memory_file, clock >>
    /\ UNCHANGED << hybVars, conVars, retVars, quaVars, appVars >>

\* the specification of context assembly: a memory that holds up to
\* CtxTurns turns, added one tick apart with their keywords enumerated in
\* vocabulary order, and queried at any point
InitContext ==
    /\ max_history = CtxTurns
    /\ max_context_length \in ContextLengths
    /\ clock = 0
    /\ current_session_id = _generate_session_id(0)
    /\ memory_file = NoFile
    /\ conversation_history = _load_history(NoFile, max_history)
    /\ last = [ op |-> "construct", raised |-> None ]
    /\ NoRetrieval
    /\ NoRequests
    /\ NoRetrieved
    /\ NoReport
    /\ NoReply

NextContext ==
    \/ \E e \in Exchanges :
          /\ Len(conversation_history) < CtxTurns
          /\ add_conversation_turn(e, 1, VocabularyOrder[e], "written")
    \/ \E q \in Queries, max_length \in MaxLengths :
          get_context_for_query(q, max_length)

SpecContext == InitContext /\ [][NextContext]_vars

-----------------------------------------------------------------------------
(* HybridRAGSystem *)

\* the merged list is cut to this many documents
MergeCap == 8
\* documents with the same first DedupPrefix characters are duplicates
DedupPrefix == 100
\* web content must be longer than this
MinWebContent == 50
\* max_results_per_engine of _web_search
MaxResultsPerEngine == 2
\* a query is enhanced only when it is shorter than this
ShortQuery == 20

\* "guanci yongfa" (the use of articles)
QArticles == <<"u51a0", "u8bcd", "u7528", "u6cd5">>

HybridQueries == { QPast, QArticles }

\* "yingyu", "yufa", "yongfa", "shitai", "guanci"
enhance_triggers ==
    << <<"u82f1", "u8bed">>,
       <<"u8bed", "u6cd5">>,
       <<"u7528", "u6cd5">>,
       <<"u65f6", "u6001">>,
       <<"u51a0", "u8bcd">> >>

\* an enhancement that does not test the length of the query
_enhance_query_any_length(query) ==
    IF \E i \in 1..Len(enhance_triggers) : Contains(Lower(query), enhance_triggers[i])
    THEN query \o <<" ", "E", "n", "g", "l", "i", "s", "h", " ", "g", "r", "a", "m",
                    "m", "a", "r", " ", "r", "u", "l", "e", "s", " ", "e", "x", "a",
                    "m", "p", "l", "e", "s">>
    ELSE query

_enhance_query(query) ==
    IF /\ \E i \in 1..Len(enhance_triggers) : Contains(Lower(query), enhance_triggers[i])
       /\ Len(query) < ShortQuery
    THEN query \o <<" ", "E", "n", "g", "l", "i", "s", "h", " ", "g", "r", "a", "m",
                    "m", "a", "r", " ", "r", "u", "l", "e", "s", " ", "e", "x", "a",
                    "m", "p", "l", "e", "s">>
    ELSE query

\* _enhance_query, tabulated over the queries
EnhancedQuery == [ q \in HybridQueries \cup Queries |-> _enhance_query(q) ]

\* a text of DedupPrefix characters c followed by the character tail
Passage(c, tail) == Tuple([ k \in 1..DedupPrefix |-> c ]) \o << tail >>

\* the Document the local retriever returns for a text
LocalDocument(content) ==
    [ page_content |-> content, metadata |-> [ source |-> "grammar.txt" ] ]

\* the raw result an engine returns for a text
RawResult(content, engine) ==
    [ title |-> "title", content |-> content, url |-> "https://example.org",
      source |-> engine ]

\* the engines in registration order
search_engines == << "DuckDuckGo", "Wikipedia" >>

\* doc.metadata.update({"source_type": "local", ...})
TagLocal(doc) ==
    [ page_content |-> doc.page_content,
      metadata |-> [ source |-> doc.metadata.source, source_type |-> "local",
                     retrieval_method |-> "vector_search" ] ]

\* the Document _web_search builds from a raw result
WebDocument(result, enhanced_query) ==
    [ page_content |-> result.content,
      metadata |-> [ source |-> result.url, title |-> result.title,
                     source_type |-> "web", engine |-> result.source,
                     query |-> enhanced_query ] ]

\* _web_search: the documents of the results that pass the length filter,
\* engine by engine in registration order
_web_search(enhanced_query, results) ==
    LET docs_of(k) ==
            LET kept == SelectSeq(results[k],
                           LAMBDA r : r.content # << >> /\ Len(r.content) > MinWebContent)
            IN  Tuple([ i \in 1..Len(kept) |-> WebDocument(kept[i], enhanced_query) ])
    IN  docs_of(1) \o docs_of(2)

\* the key of the duplicate test
ContentKey(doc) == SliceTo(doc.page_content, DedupPrefix)

\* one loop of _deduplicate_and_rank: the documents whose key is not in seen
\* and not the key of an earlier document of the loop
Unseen(docs, seen) ==
    LET keys == Tuple([ i \in 1..Len(docs) |-> ContentKey(docs[i]) ])
        fresh == { i \in 1..Len(docs) :
                     /\ keys[i] \notin seen
                     /\ \A j \in 1..(i - 1) : keys[j] # keys[i] }
        pick(n) == CHOOSE i \in fresh : Cardinality({ j \in fresh : j < i }) = n - 1
    IN  Tuple([ n \in 1..Cardinality(fresh) |-> docs[pick(n)] ])

KeysOf(docs) == { ContentKey(docs[i]) : i \in 1..Len(docs) }

\* a merge that forgets the cap
_deduplicate_and_rank_uncapped(docs) ==
    LET local_docs == SelectSeq(docs, LAMBDA doc : doc.metadata.source_type = "local")
        web_docs == SelectSeq(docs, LAMBDA doc : doc.metadata.source_type = "web")
    IN  Unseen(local_docs, { }) \o Unseen(web_docs, KeysOf(local_docs))

\* a merge that serves the web documents first
_deduplicate_and_rank_web_first(docs) ==
    LET local_docs == SelectSeq(docs, LAMBDA doc : doc.metadata.source_type = "local")
        web_docs == SelectSeq(docs, LAMBDA doc : doc.metadata.source_type = "web")
    IN  SliceTo(Unseen(web_docs, { }) \o Unseen(local_docs, KeysOf(web_docs)),
                MergeCap)

\* a merge whose seen set is not shared between the two loops
_deduplicate_and_rank_separate(docs) ==
    LET local_docs == SelectSeq(docs, LAMBDA doc : doc.metadata.source_type = "local")
        web_docs == SelectSeq(docs, LAMBDA doc : doc.metadata.source_type = "web")
    IN  SliceTo(Unseen(local_docs, { }) \o Unseen(web_docs, { }), MergeCap)

_deduplicate_and_rank(docs) ==
    LET local_docs == SelectSeq(docs, LAMBDA doc : doc.metadata.source_type = "local")
        web_docs == SelectSeq(docs, LAMBDA doc : doc.metadata.source_type = "web")
    IN  SliceTo(Unseen(local_docs, { }) \o Unseen(web_docs, KeysOf(local_docs)),
                MergeCap)

\* the exception an unreachable passage store raises inside
\* local_retriever.get_relevant_documents
local_exception(store_fails) ==
    IF store_fails THEN Some("ConnectionError") ELSE None

\* the exception a request that times out raises inside engine.search
engine_exception(fails) ==
    IF fails THEN Some("Timeout") ELSE None

\* an engine that returns the results it was to build although its request
\* failed
engine_search_regardless(results, fails) == results

\* engine.search: the whole body is in try ... except Exception: return []
engine_search(results, fails) ==
    IF engine_exception(fails) # None /\ except_Exception(engine_exception(fails)) = None
    THEN << >>
    ELSE results

\* the results of the engines, engine by engine, with the requests of the
\* engines in failing timing out
engine_answers(failing) ==
    Tuple([ k \in 1..Len(search_engines) |->
               engine_search(engine_results[k], k \in failing) ])

\* the body of search_and_retrieve: the exception that leaves it, the
\* documents collected and the documents returned
hybrid_documents(query, use_local, use_web, store_fails, failing) ==
    LET local_docs ==
            IF use_local /\ local_exception(store_fails) = None
            THEN Tuple([ i \in 1..Len(index_result) |-> TagLocal(index_result[i]) ])
            ELSE << >>
        raised ==
            IF use_local THEN except_Exception(local_exception(store_fails))
            ELSE None
        web_docs ==
            IF use_web /\ enable_web_search
            THEN _web_search(EnhancedQuery[query], engine_answers(failing))
            ELSE << >>
        all_docs == local_docs \o web_docs
    IN  [ raised |-> raised, all_docs |-> all_docs,
          docs |-> _deduplicate_and_rank(all_docs) ]

\* search_and_retrieve(query, use_local, use_web), with the passage store
\* unreachable when store_fails and the requests of the engines in failing
\* timing out.  The except of line 245 logs the failure of the local
\* retrieval and the call goes on without local documents.
search_and_retrieve(query, use_local, use_web, store_fails, failing) ==
    /\ retrieval.state = "none"
    /\ LET found == hybrid_documents(query, use_local, use_web, store_fails, failing)
       IN  retrieval' =
               IF found.raised = None
               THEN [ state |-> "returned", query |-> query,
                      use_local |-> use_local, use_web |-> use_web,
                      store_fails |-> store_fails, failing |-> failing,
                      all_docs |-> found.all_docs,
                      docs |-> found.docs ]
               ELSE [ state |-> "raised", query |-> query,
                      use_local |-> use_local, use_web |-> use_web,
                      store_fails |-> store_fails, failing |-> failing,
                      all_docs |-> << >>, docs |-> << >> ]
    /\ UNCHANGED << enable_web_search, index_result, engine_results >>
    /\ UNCHANGED << memVars, conVars, retVars, quaVars, appVars >>

\* the local retriever finds one more document for the request
local_retriever_yields(content) ==
    /\ retrieval.state = "none"
    /\ engine_results = << << >>, << >> >>
    /\ index_result' = Append(index_result, LocalDocument(content))
    /\ UNCHANGED << enable_web_search, engine_results, retrieval >>
    /\ UNCHANGED << memVars, conVars, retVars, quaVars, appVars >>

\* engine k finds one more result for the request (a system with web search
\* disabled never calls an engine)
engine_yields(k, content) ==
    /\ retrieval.state = "none"
    /\ enable_web_search
    /\ \A later \in (k + 1)..Len(search_engines) : engine_results[later] = << >>
    /\ Len(engine_results[k]) < MaxResultsPerEngine
    /\ engine_results' =
          [ engine_results EXCEPT ![k] = Append(@, RawResult(content, search_engines[k])) ]
    /\ UNCHANGED << enable_web_search, index_result, retrieval >>
    /\ UNCHANGED << memVars, conVars, retVars, quaVars, appVars >>

\* the texts the local retriever can find next: a text with a prefix not
\* seen before, or a text sharing the prefix of the first document
NextLocalContents ==
    { Passage(LowerCase[Len(index_result) + 1], "x") }
        \cup { Passage(LowerCase[1], "y") :
                 z \in { i \in 1..Len(index_result) :
                           Cardinality({ j \in 1..Len(index_result) :
                               index_result[j].page_content = Passage(LowerCase[1], "y") })
                             < MaxVariants } }

\* a text of n characters
ShortText(n) == Tuple([ k \in 1..n |-> "s" ])

\* the results with a text of at most MinWebContent characters
ShortResults ==
    { << k, i >> \in (1..Len(search_engines)) \X (1..MaxResultsPerEngine) :
         /\ i <= Len(engine_results[k])
         /\ Len(engine_results[k][i].content) <= MinWebContent }

\* the texts engine k can find next: a text with a prefix of its own; for
\* the first engine a text sharing the prefix of the last local document;
\* for the last engine (MaxShort times) a text of a length around the one
\* the filter of _web_search tests
NextWebContents(k) ==
    { Passage(UpperCase[MaxResultsPerEngine * (k - 1) + Len(engine_results[k]) + 1], "w") }
        \cup { Passage(LowerCase[i], "w") :
                  i \in { j \in { Len(index_result) } \ { 0 } : k = 1 } }
        \cup { ShortText(n) :
                  n \in { m \in { MinWebContent - 1, MinWebContent } :
                            k = Len(search_engines)
                               /\ Cardinality(ShortResults) < MaxShort } }

InitHybrid ==
    /\ max_history = DefaultMaxHistory
    /\ max_context_length = DefaultMaxContextLength
    /\ clock = 0
    /\ current_session_id = _generate_session_id(0)
    /\ memory_file = NoFile
    /\ conversation_history = _load_history(NoFile, max_history)
    /\ last = [ op |-> "construct", raised |-> None ]
    /\ enable_web_search \in BOOLEAN
    /\ index_result = << >>
    /\ engine_results = << << >>, << >> >>
    /\ retrieval = [ state |-> "none" ]
    /\ NoRequests
    /\ NoRetrieved
    /\ NoReport
    /\ NoReply

NextHybrid ==
    \/ \E content \in NextLocalContents :
          /\ Len(index_result) < MaxLocal
          /\ local_retriever_yields(content)
    \/ \E k \in 1..Len(search_engines) : \E content \in NextWebContents(k) :
          engine_yields(k, content)
    \/ \E query \in HybridQueries, use_local \in BOOLEAN, use_web \in BOOLEAN :
          \E store_fails \in { FALSE, use_local } :
              \E failing \in SUBSET { k \in 1..Len(search_engines) :
                                        use_web /\ enable_web_search } :
                  search_and_retrieve(query, use_local, use_web, store_fails, failing)

SpecHybrid == InitHybrid /\ [][NextHybrid]_vars

-----------------------------------------------------------------------------
(* Claims about the history and its persisted mirror *)

\* C1: in every reachable state the in-memory history holds at most
\* max_history turns, for every max_history >= 0.
C1_HistoryBound == Len(conversation_history) <= max_history

\* C2: an add on a history that holds max_history turns removes exactly the
\* oldest turn, puts the new turn last and keeps the others in order, so the
\* length stays max_history.
C2_FifoEviction ==
    [][ (last'.op = "add" /\ Len(conversation_history) = max_history) =>
          /\ Len(conversation_history') = max_history
          /\ SubSeq(conversation_history', 1, Len(conversation_history') - 1)
               = SubSeq(conversation_history, 2, Len(conversation_history)) ]_vars

\* C9: after an add whose write succeeded the persisted document holds
\* exactly the turns of the in-memory history, in the same order, also when
\* the file was out of step with the history before the call.
C9_PersistedMirror ==
    (last.op = "add" /\ last.outcome = "written") =>
        /\ memory_file.state = "document"
        /\ Len(memory_file.data) = Len(conversation_history)
        /\ \A i \in 1..Len(conversation_history) :
              turn_of_dict(memory_file.data[i]) = conversation_history[i]

\* C9 witness: a successful write after an overflowing add, made when the
\* file had been left behind by a failed write.
C9_Witness ==
    /\ last.op = "add" /\ last.outcome = "written"
    /\ last.overflow /\ last.stale
    /\ Len(conversation_history) >= 2

\* C10: a memory constructed over a persisted document starts with exactly
\* the most recent max_history persisted turns, in order, fields unchanged.
C10_ReloadRoundTrip ==
    (last.op = "construct" /\ memory_file.state = "document") =>
        LET data == memory_file.data
            n == Min(max_history, Len(data))
        IN  /\ Len(conversation_history) = n
            /\ \A i \in 1..n :
                  turn_dict(conversation_history[i]) = data[Len(data) - n + i]

-----------------------------------------------------------------------------
(* Claims about context assembly *)

\* the keyword overlap of the turn at position i with the query of the call
Overlap(i) ==
    Cardinality(QueryKeywords[last.current_query]
                    \cap Range(conversation_history[i].keywords))

\* the place of the turn at position i in the ranking of the call
Rank(i) == CHOOSE k \in 1..Len(last.relevant) : last.relevant[k] = i

Window == { last.relevant[k] : k \in 1..Len(last.relevant) }

\* C6: of two turns of the window with the same keyword overlap, the more
\* recent one scores higher and is ranked earlier.
C6_RecencyRanking ==
    last.op = "context" =>
        \A i, j \in Window :
            (i < j /\ Overlap(i) = Overlap(j)) =>
                /\ total_score(conversation_history, QueryKeywords[last.current_query],
                               conversation_history[j])
                     > total_score(conversation_history, QueryKeywords[last.current_query],
                                   conversation_history[i])
                /\ Rank(j) < Rank(i)

\* C7: for a max_length L passed to the call, the lengths of the included
\* snippets sum to at most L, and each included snippet is the complete
\* formatted text of a turn of the history.
C7_ContextLengthBound ==
    (last.op = "context" /\ last.max_length # None) =>
        /\ SumLen(last.context_parts) <= last.max_length[1]
        /\ \A k \in 1..Len(last.context_parts) :
              \E i \in 1..Len(conversation_history) :
                  last.context_parts[k] = _format_context_turn(conversation_history[i])

\* "xianzai wanchengshi" (present perfect), the keyword of the scenario
KwPerfect == <<"u73b0", "u5728", "u5b8c", "u6210", "u65f6">>

\* C8: a turn of the window that shares a keyword with the query is ranked
\* ahead of every earlier turn of the window that shares fewer; and for the
\* query QExamples a turn about the present perfect is ranked ahead of every
\* earlier turn that is not about it.
C8_KeywordPriority ==
    last.op = "context" =>
        /\ \A i, j \in Window :
              (i < j /\ Overlap(j) >= 1 /\ Overlap(i) < Overlap(j)) => Rank(j) < Rank(i)
        /\ last.current_query = QExamples =>
              \A i, j \in Window :
                  ( /\ i < j
                    /\ KwPerfect \in Range(conversation_history[j].keywords)
                    /\ KwPerfect \notin Range(conversation_history[i].keywords) )
                  => Rank(j) < Rank(i)

-----------------------------------------------------------------------------
(* Claims about the merge of local and web documents *)

IsLocal(doc) == doc.metadata.source_type = "local"
IsWeb(doc) == doc.metadata.source_type = "web"

\* the local list and the web list given to the merge
LocalGiven == SelectSeq(retrieval.all_docs, IsLocal)
WebGiven == SelectSeq(retrieval.all_docs, IsWeb)

\* the places of the merged output that hold a document with this key
PlacesOf(key) ==
    { n \in 1..Len(retrieval.docs) : ContentKey(retrieval.docs[n]) = key }

\* the keys that a local and a web document share
SharedKeys == KeysOf(LocalGiven) \cap KeysOf(WebGiven)

\* C3 as stated: for a key shared by a local and a web document, the merged
\* output holds exactly one document with that key, and it is a local one.
C3_DedupLocalPriority ==
    retrieval.state = "returned" =>
        \A key \in SharedKeys :
            /\ Cardinality(PlacesOf(key)) = 1
            /\ \A n \in PlacesOf(key) : IsLocal(retrieval.docs[n])

\* the first place of the local list that holds a document with this key
FirstLocal(key) ==
    CHOOSE i \in 1..Len(LocalGiven) :
        /\ ContentKey(LocalGiven[i]) = key
        /\ \A j \in 1..(i - 1) : ContentKey(LocalGiven[j]) # key

\* the number of distinct keys in the local list up to that place
KeyRank(key) ==
    Cardinality({ ContentKey(LocalGiven[j]) : j \in 1..FirstLocal(key) })

\* C3 as amended: for a key shared by a local and a web document, the merged
\* output holds at most one document with that key and never a web one; when
\* the key is among the first MergeCap distinct keys of the local list, the
\* output holds exactly one, the first local document with that key.
C3_DedupLocalPriorityWithinCap ==
    retrieval.state = "returned" =>
        \A key \in SharedKeys :
            /\ Cardinality(PlacesOf(key)) <= 1
            /\ \A n \in PlacesOf(key) : IsLocal(retrieval.docs[n])
            /\ KeyRank(key) <= MergeCap =>
                  /\ PlacesOf(key) = { KeyRank(key) }
                  /\ retrieval.docs[KeyRank(key)] = LocalGiven[FirstLocal(key)]

\* C3 witness: a web document repeats the prefix of a local one with another
\* text, and the merged output holds the local one.
C3_Witness ==
    /\ retrieval.state = "returned"
    /\ \E i \in 1..Len(LocalGiven), j \in 1..Len(WebGiven) :
          /\ ContentKey(LocalGiven[i]) = ContentKey(WebGiven[j])
          /\ LocalGiven[i].page_content # WebGiven[j].page_content
          /\ \E n \in 1..Len(retrieval.docs) : retrieval.docs[n] = LocalGiven[i]
    /\ \E n \in 1..Len(retrieval.docs) : IsWeb(retrieval.docs[n])

\* C4: the list search_and_retrieve returns has at most 8 documents.
C4_MergeCap ==
    retrieval.state = "returned" => Len(retrieval.docs) <= MergeCap

\* C4 witness: more than 8 documents with distinct prefixes were given to
\* the merge, local and web, and 8 were returned.
C4_Witness ==
    /\ retrieval.state = "returned"
    /\ Cardinality(KeysOf(retrieval.all_docs)) > MergeCap
    /\ LocalGiven # << >> /\ WebGiven # << >>
    /\ Len(retrieval.docs) = MergeCap

RECURSIVE IsSubsequence(_, _)
\* a is b with some elements left out
IsSubsequence(a, b) ==
    IF a = << >> THEN TRUE
    ELSE IF b = << >> THEN FALSE
    ELSE IF Head(a) = Head(b) THEN IsSubsequence(Tail(a), Tail(b))
    ELSE IsSubsequence(a, Tail(b))

ContentsOf(docs) == Tuple([ i \in 1..Len(docs) |-> docs[i].page_content ])
RawContentsOf(results) == Tuple([ i \in 1..Len(results) |-> results[i].content ])

\* C5: in the merged output no local document follows a web document, the
\* local documents are in the order the local retriever returned them and
\* the web documents in the order of the engines and of each engine's results.
C5_SourcePriority ==
    retrieval.state = "returned" =>
        /\ \A m, n \in 1..Len(retrieval.docs) :
              (m < n /\ IsWeb(retrieval.docs[m])) => IsWeb(retrieval.docs[n])
        /\ IsSubsequence(ContentsOf(SelectSeq(retrieval.docs, IsLocal)),
                         ContentsOf(index_result))
        /\ IsSubsequence(ContentsOf(SelectSeq(retrieval.docs, IsWeb)),
                         RawContentsOf(engine_results[1])
                             \o RawContentsOf(engine_results[2]))

\* C5 witness: the output holds two local documents and then a document of
\* each engine.
C5_Witness ==
    /\ retrieval.state = "returned"
    /\ Len(SelectSeq(retrieval.docs, IsLocal)) >= 2
    /\ \E m, n \in 1..Len(retrieval.docs) :
          /\ m < n
          /\ IsWeb(retrieval.docs[m]) /\ IsWeb(retrieval.docs[n])
          /\ retrieval.docs[m].metadata.engine = search_engines[1]
          /\ retrieval.docs[n].metadata.engine = search_engines[2]

-----------------------------------------------------------------------------
(* Claims about clear_history and about failures of the storage *)

\* C11: after clear_history the history is empty, the file does not exist, a
\* memory constructed over the storage starts empty, and the session
\* identifier differs from the one in use before the call.
C11_ClearPostState ==
    [][ last'.op = "clear" =>
          /\ conversation_history' = << >>
          /\ memory_file' = NoFile
          /\ \A mh \in 0..MaxHist : _load_history(memory_file', mh) = << >>
          /\ current_session_id' # current_session_id ]_vars

-----------------------------------------------------------------------------
(* add_conversation_turn run by concurrent requests.  The application's    *)
(* handlers call it on the one instance get_conversation_memory() returns; *)
(* the method takes no lock, so the steps of two calls interleave.         *)

\* the bookkeeping that the steps of a request leave alone
RequestFrame ==
    /\ UNCHANGED << max_history, max_context_length, current_session_id, last >>
    /\ UNCHANGED << hybVars, retVars, quaVars, appVars >>

\* lines 48-57: the request builds its turn
build_turn(t, e) ==
    /\ threads[t].pc = "idle"
    /\ clock' = clock + 1
    /\ threads' = [ threads EXCEPT ![t] =
           [ pc |-> "append",
             turn |-> ConversationTurn(e, clock + 1, current_session_id,
                                       VocabularyOrder[e]) ] ]
    /\ UNCHANGED << conversation_history, memory_file, append_log >>
    /\ RequestFrame

\* line 60: self.conversation_history.append(turn)
append_turn(t) ==
    /\ threads[t].pc = "append"
    /\ conversation_history' = Append(conversation_history, threads[t].turn)
    /\ append_log' = Append(append_log, threads[t].turn)
    /\ threads' = [ threads EXCEPT ![t] = [ pc |-> "check" ] ]
    /\ UNCHANGED << clock, memory_file >>
    /\ RequestFrame

\* line 63: if len(self.conversation_history) > self.max_history
check_length(t) ==
    /\ threads[t].pc = "check"
    /\ threads' = [ threads EXCEPT ![t] =
           [ pc |-> IF Len(conversation_history) > max_history
                    THEN "slice" ELSE "collect" ] ]
    /\ UNCHANGED << clock, conversation_history, memory_file, append_log >>
    /\ RequestFrame

\* line 64, right-hand side: self.conversation_history[-self.max_history:]
slice_history(t) ==
    /\ threads[t].pc = "slice"
    /\ threads' = [ threads EXCEPT ![t] =
           [ pc |-> "assign",
             sliced |-> SliceLast(conversation_history, max_history) ] ]
    /\ UNCHANGED << clock, conversation_history, memory_file, append_log >>
    /\ RequestFrame

\* line 64, the assignment to self.conversation_history
assign_history(t) ==
    /\ threads[t].pc = "assign"
    /\ conversation_history' = threads[t].sliced
    /\ threads' = [ threads EXCEPT ![t] = [ pc |-> "collect" ] ]
    /\ UNCHANGED << clock, memory_file, append_log >>
    /\ RequestFrame

\* lines 171-183: _save_history collects history_data
collect_history(t) ==
    /\ threads[t].pc = "collect"
    /\ threads' = [ threads EXCEPT ![t] =
           [ pc |-> "open",
             history_data |-> _save_history(conversation_history, memory_file,
                                            "written") ] ]
    /\ UNCHANGED << clock, conversation_history, memory_file, append_log >>
    /\ RequestFrame

\* line 185: open(self.memory_file, "w") truncates the file
open_file(t) ==
    /\ threads[t].pc = "open"
    /\ memory_file' = CorruptFile
    /\ threads' = [ threads EXCEPT ![t] =
           [ pc |-> "dump", history_data |-> threads[t].history_data ] ]
    /\ UNCHANGED << clock, conversation_history, append_log >>
    /\ RequestFrame

\* line 186 and the end of the with block: the document is written from
\* offset 0 and the file closed.  Over a document another request wrote
\* since this one opened the file, the result is this request's document, or
\* this request's document followed by the rest of a longer one.
dump_file(t) ==
    /\ threads[t].pc = "dump"
    /\ \/ memory_file' = threads[t].history_data
       \/ /\ memory_file.state = "document"
          /\ Len(memory_file.data) > Len(threads[t].history_data.data)
          /\ memory_file' = CorruptFile
    /\ threads' = [ threads EXCEPT ![t] = [ pc |-> "idle" ] ]
    /\ UNCHANGED << clock, conversation_history, append_log >>
    /\ RequestFrame

\* requests explored
MaxRequests == 3

InitConcurrent ==
    /\ max_history \in 1..MaxHist
    /\ max_context_length = DefaultMaxContextLength
    /\ clock = 0
    /\ current_session_id = _generate_session_id(0)
    /\ memory_file = NoFile
    /\ conversation_history = _load_history(NoFile, max_history)
    /\ last = [ op |-> "construct", raised |-> None ]
    /\ NoRetrieval
    /\ NoRequests
    /\ NoRetrieved
    /\ NoReport
    /\ NoReply

NextConcurrent ==
    \E t \in Threads :
        \/ \E e \in Exchanges : clock < MaxRequests /\ build_turn(t, e)
        \/ append_turn(t)
        \/ check_length(t)
        \/ slice_history(t)
        \/ assign_history(t)
        \/ collect_history(t)
        \/ open_file(t)
        \/ dump_file(t)

SpecConcurrent == InitConcurrent /\ [][NextConcurrent]_vars

\* C13: a failed write during add_conversation_turn leaves the call returning
\* normally with the new turn in the history; a failed read or parse during
\* construction leaves the construction completing, with an empty history.
C13_PersistenceFailureRecovered ==
    /\ (last.op = "add" /\ last.outcome # "written") =>
          /\ last.raised = None
          /\ conversation_history # << >>
          /\ conversation_history[Len(conversation_history)].timestamp = clock
          /\ conversation_history[Len(conversation_history)].session_id
                = current_session_id
    /\ (last.op = "construct" /\ memory_file.state = "corrupt") =>
          /\ last.raised = None
          /\ conversation_history = << >>

\* C13 witness: a memory constructed over the truncated document that a
\* failed json.dump left
C13_Witness ==
    /\ last.op = "construct"
    /\ memory_file = CorruptFile
    /\ last.raised = None
    /\ conversation_history = << >>

\* no request is inside add_conversation_turn
Quiescent == \A t \in Threads : threads[t].pc = "idle"

\* C12: when the calls of concurrent requests have finished, no turn that the
\* capacity allows is lost (the history is the last max_history appended
\* turns), the history bound holds and the file is the mirror of the history.
C12_SerializedAppends ==
    (Quiescent /\ append_log # << >>) =>
        /\ conversation_history = SliceLast(append_log, max_history)
        /\ Len(conversation_history) <= max_history
        /\ memory_file = _save_history(conversation_history, memory_file, "written")

-----------------------------------------------------------------------------
(* Claims about failures of the passage store and of the engines *)

\* C14: when the passage store fails during a search_and_retrieve that uses
\* local retrieval, the call reports the failure to the caller and returns
\* no documents.
C14_LocalFailureSurfaced ==
    (retrieval.state # "none" /\ retrieval.use_local /\ retrieval.store_fails) =>
        /\ retrieval.state = "raised"
        /\ retrieval.docs = << >>

\* the engines whose request did not fail in the call
Succeeded == { k \in 1..Len(search_engines) : k \notin retrieval.failing }

\* the texts of the results of the engines that succeeded, in registration
\* order: all of them, and those longer than MinWebContent
SucceededContents ==
    LET of(k) == IF k \in Succeeded THEN RawContentsOf(engine_results[k]) ELSE << >>
    IN  of(1) \o of(2)
SucceededLongContents ==
    SelectSeq(SucceededContents, LAMBDA c : Len(c) > MinWebContent)

\* C15: whichever engines fail, a call that searches the web raises no error
\* and the web documents it gathers are the passages of the engines that
\* succeeded, in registration order: none from a failed engine, and every
\* result of a succeeded engine with a text of more than 50 characters.
C15_WebFailureDegrades ==
    (retrieval.state # "none" /\ retrieval.use_web /\ enable_web_search
        /\ ~retrieval.store_fails) =>
        /\ retrieval.state = "returned"
        /\ \A i \in 1..Len(WebGiven) :
              \E k \in Succeeded :
                  /\ WebGiven[i].metadata.engine = search_engines[k]
                  /\ \E j \in 1..Len(engine_results[k]) :
                        engine_results[k][j].content = WebGiven[i].page_content
        /\ IsSubsequence(SucceededLongContents, ContentsOf(WebGiven))
        /\ IsSubsequence(ContentsOf(WebGiven), SucceededContents)

\* C15 witness: both engines had results, the request of the second timed
\* out, and the call returned the passages of the first.
C15_Witness ==
    /\ retrieval.state = "returned"
    /\ retrieval.use_web
    /\ retrieval.failing = { 2 }
    /\ engine_results[1] # << >>
    /\ engine_results[2] # << >>
    /\ WebGiven # << >>
    /\ \A i \in 1..Len(WebGiven) : WebGiven[i].metadata.engine = search_engines[1]
    /\ \E n \in 1..Len(retrieval.docs) : IsWeb(retrieval.docs[n])

\* C16: of the results of the engines that succeeded, those with a text of
\* fewer than 50 characters are discarded and those with a text of 50 or
\* more characters become documents tagged source_type = web.
C16_ShortContentFilter ==
    (retrieval.state = "returned" /\ retrieval.use_web /\ enable_web_search) =>
        \A k \in Succeeded : \A j \in 1..Len(engine_results[k]) :
            LET content == engine_results[k][j].content
                made == { i \in 1..Len(WebGiven) : WebGiven[i].page_content = content }
            IN  /\ Len(content) < 50 => made = { }
                /\ Len(content) >= 50 =>
                      /\ made # { }
                      /\ \A i \in made : WebGiven[i].metadata.source_type = "web"

-----------------------------------------------------------------------------
(* EnhancedRetriever *)

\* k of the similarity retriever and of the diversity (MMR) retriever
similarity_k == 5
mmr_k == 4
\* the diversity retriever is consulted below this many similarity results
MinVectorDocs == 3
\* the supplemented list stops growing at this length
SupplementLimit == 6
\* the enhanced list is cut to this many documents
EnhancedCap == 5

\* the method names get_relevant_documents knows, and one it does not
known_methods == { "vector", "mmr", "ensemble", "compression", "enhanced" }
Methods == known_methods \cup { "bm25" }

RECURSIVE Supplement(_, _)
\* for doc in mmr_docs: if doc not in results and len(results) < 6:
\*     results.append(doc)
Supplement(results, mmr_docs) ==
    IF mmr_docs = << >> THEN results
    ELSE LET doc == Head(mmr_docs)
         IN  Supplement(IF doc \notin Range(results) /\ Len(results) < SupplementLimit
                        THEN Append(results, doc) ELSE results,
                        Tail(mmr_docs))

\* an enhanced retrieval that consults the diversity retriever whatever the
\* similarity retriever returned
_enhanced_retrieval_always(vector_docs, mmr_docs) ==
    SliceTo(Unseen(Supplement(vector_docs, mmr_docs), { }), EnhancedCap)

\* _enhanced_retrieval: the similarity results, supplemented when they are
\* fewer than 3, then the first document of each content key up to 5
_enhanced_retrieval(vector_docs, mmr_docs) ==
    LET results == IF Len(vector_docs) < MinVectorDocs
                   THEN Supplement(vector_docs, mmr_docs)
                   ELSE vector_docs
    IN  SliceTo(Unseen(results, { }), EnhancedCap)

\* the retrievers get_relevant_documents invokes for a method
invoked(method) ==
    CASE method \in { "vector", "ensemble", "compression" } -> << "vector" >>
      [] method = "mmr" -> << "mmr" >>
      [] method = "enhanced" ->
            IF Len(similarity_result) < MinVectorDocs
            THEN << "vector", "mmr" >> ELSE << "vector" >>
      [] OTHER -> << >>

\* get_relevant_documents(query, method), with the passage store unreachable
\* when store_fails.  The method has no handler: the exception of the first
\* retriever invoked, or the ValueError of an unknown method, reaches the
\* caller.
get_relevant_documents(method, store_fails) ==
    /\ retrieved.state = "none"
    /\ LET exc == IF method \notin known_methods THEN Some("ValueError")
                  ELSE local_exception(store_fails)
           found ==
               CASE method \in { "vector", "ensemble", "compression" } -> similarity_result
                 [] method = "mmr" -> diversity_result
                 [] method = "enhanced" ->
                       _enhanced_retrieval(similarity_result, diversity_result)
                 [] OTHER -> << >>
       IN  retrieved' =
               IF exc = None
               THEN [ state |-> "returned", method |-> method, raised |-> None,
                      store_fails |-> store_fails,
                      invoked |-> invoked(method), docs |-> found ]
               ELSE [ state |-> "raised", method |-> method, raised |-> exc,
                      store_fails |-> store_fails,
                      invoked |-> SliceTo(invoked(method), 1), docs |-> << >> ]
    /\ UNCHANGED << similarity_result, diversity_result >>
    /\ UNCHANGED << memVars, hybVars, conVars, quaVars, appVars >>

\* the similarity retriever finds one more document for the request
similarity_yields(content) ==
    /\ retrieved.state = "none"
    /\ diversity_result = << >>
    /\ Len(similarity_result) < similarity_k
    /\ similarity_result' = Append(similarity_result, LocalDocument(content))
    /\ UNCHANGED << diversity_result, retrieved >>
    /\ UNCHANGED << memVars, hybVars, conVars, quaVars, appVars >>

\* the diversity retriever finds one more document for the request
diversity_yields(content) ==
    /\ retrieved.state = "none"
    /\ Len(diversity_result) < mmr_k
    /\ diversity_result' = Append(diversity_result, LocalDocument(content))
    /\ UNCHANGED << similarity_result, retrieved >>
    /\ UNCHANGED << memVars, hybVars, conVars, quaVars, appVars >>

\* similarity results that repeat the prefix of the first one
MaxRepeats == 1

\* the texts the similarity retriever can find next: a text with a prefix not
\* seen before, or (MaxRepeats times) one sharing the prefix of the first
NextSimilarContents ==
    { Passage(LowerCase[Len(similarity_result) + 1], "x") }
        \cup { Passage(LowerCase[1], "y") :
                 z \in { i \in 1..Len(similarity_result) :
                           Cardinality({ j \in 1..Len(similarity_result) :
                               similarity_result[j].page_content
                                  = Passage(LowerCase[1], "y") }) < MaxRepeats } }

\* the texts the diversity retriever can find next: a text with a prefix of
\* its own, the first document of the store, or a text sharing its prefix
NextDiverseContents ==
    { Passage(UpperCase[Len(diversity_result) + 1], "x"),
      Passage(LowerCase[1], "x"),
      Passage(LowerCase[1], "z") }

InitRetriever ==
    /\ max_history = DefaultMaxHistory
    /\ max_context_length = DefaultMaxContextLength
    /\ clock = 0
    /\ current_session_id = _generate_session_id(0)
    /\ memory_file = NoFile
    /\ conversation_history = _load_history(NoFile, max_history)
    /\ last = [ op |-> "construct", raised |-> None ]
    /\ NoRetrieval
    /\ NoRequests
    /\ NoRetrieved
    /\ NoReport
    /\ NoReply

NextRetriever ==
    \/ \E content \in NextSimilarContents : similarity_yields(content)
    \/ \E content \in NextDiverseContents : diversity_yields(content)
    \/ \E method \in Methods, store_fails \in BOOLEAN :
          get_relevant_documents(method, store_fails)

SpecRetriever == InitRetriever /\ [][NextRetriever]_vars

\* the first place of the similarity results that holds a document with
\* the key of this document
FirstSimilar(doc) ==
    CHOOSE i \in 1..Len(similarity_result) :
        /\ ContentKey(similarity_result[i]) = ContentKey(doc)
        /\ \A j \in 1..(i - 1) : ContentKey(similarity_result[j]) # ContentKey(doc)

\* the documents of the enhanced result that come from the similarity results
FromSimilar == Min(EnhancedCap, Cardinality(KeysOf(similarity_result)))

\* C17: the enhanced result starts with the similarity results in their
\* order (the first document of each content key); the diversity retriever
\* is consulted only when the similarity results are fewer than 3, and the
\* documents after the similarity ones are diversity results not present
\* among them; no two documents of the result have the same first 100
\* characters, and the result has at most 5 documents.
C17_EnhancedRetrieval ==
    (retrieved.state = "returned" /\ retrieved.method = "enhanced") =>
        LET out == retrieved.docs
        IN  /\ Len(out) >= FromSimilar
            /\ IsSubsequence(SubSeq(out, 1, FromSimilar), similarity_result)
            /\ \A i \in 1..FromSimilar : out[i] = similarity_result[FirstSimilar(out[i])]
            /\ "mmr" \in Range(retrieved.invoked) => Len(similarity_result) < 3
            /\ Len(similarity_result) >= 3 => Len(out) = FromSimilar
            /\ \A i \in (FromSimilar + 1)..Len(out) :
                  /\ out[i] \in Range(diversity_result)
                  /\ out[i] \notin Range(similarity_result)
                  /\ ContentKey(out[i]) \notin KeysOf(similarity_result)
            /\ \A i, j \in 1..Len(out) :
                  i # j => ContentKey(out[i]) # ContentKey(out[j])
            /\ Len(out) <= 5

\* C17 witness: two similarity results, and a diversity retriever that
\* returns a document already present, one with the prefix of a present one
\* and a new one; the result is the similarity results and the new one.
C17_Witness ==
    /\ retrieved.state = "returned" /\ retrieved.method = "enhanced"
    /\ Len(similarity_result) = 2
    /\ \E i, j, k \in 1..Len(diversity_result) :
          /\ diversity_result[i] \in Range(similarity_result)
          /\ diversity_result[j] \notin Range(similarity_result)
          /\ ContentKey(diversity_result[j]) \in KeysOf(similarity_result)
          /\ ContentKey(diversity_result[k]) \notin KeysOf(similarity_result)
    /\ Len(retrieved.docs) = 3
    /\ SubSeq(retrieved.docs, 1, 2) = similarity_result

-----------------------------------------------------------------------------
(* Quality reports: EnhancedRetriever.analyze_retrieval_quality and        *)
(* HybridRAGApp._analyze_hybrid_retrieval                                  *)

\* a number as the fraction << numerator, denominator >>, denominator > 0
Rat(n) == << n, 1 >>
RatDiv(a, k) == << a[1], a[2] * k >>
RatAdd(a, b) == << a[1] * b[2] + b[1] * a[2], a[2] * b[2] >>
RatLess(a, b) == a[1] * b[2] < b[1] * a[2]
RatEq(a, b) == a[1] * b[2] = b[1] * a[2]
RatMin(a, b) == IF RatLess(b, a) THEN b ELSE a

\* a report is low below this score (both analyzers)
LowQuality == 60
\* the local analyzer finds fewer results than this few
FewResults == 3
\* and a mean length below this short
ShortFragments == 100

\* "wei jiansuo dao wendang, qing jiancha chaxun huo zhishiku"
NoDocumentsAdvice ==
    <<"u672a", "u68c0", "u7d22", "u5230", "u6587", "u6863", "uff0c", "u8bf7",
    "u68c0", "u67e5", "u67e5", "u8be2", "u6216", "u77e5", "u8bc6",
    "u5e93">>
\* "jiansuo jieguo jiao shao, kaolv jiangdi xiangsidu yuzhi"
FewResultsAdvice ==
    <<"u68c0", "u7d22", "u7ed3", "u679c", "u8f83", "u5c11", "uff0c", "u8003",
    "u8651", "u964d", "u4f4e", "u76f8", "u4f3c", "u5ea6", "u9608",
    "u503c">>
\* "wendang pianduan jiao duan, keneng quefa shangxiawen"
ShortFragmentsAdvice ==
    <<"u6587", "u6863", "u7247", "u6bb5", "u8f83", "u77ed", "uff0c", "u53ef",
    "u80fd", "u7f3a", "u4e4f", "u4e0a", "u4e0b", "u6587">>
\* "jiansuo zhiliang pian di, jianyi youhua chaxun huo jiansuo celve"
LowQualityAdvice ==
    <<"u68c0", "u7d22", "u8d28", "u91cf", "u504f", "u4f4e", "uff0c", "u5efa",
    "u8bae", "u4f18", "u5316", "u67e5", "u8be2", "u6216", "u68c0",
    "u7d22", "u7b56", "u7565">>
\* "wei jiansuo dao wendang, qing jiancha chaxun canshu"
NoDocumentsHybridAdvice ==
    <<"u672a", "u68c0", "u7d22", "u5230", "u6587", "u6863", "uff0c", "u8bf7",
    "u68c0", "u67e5", "u67e5", "u8be2", "u53c2", "u6570">>
\* "bendi zhishiku wei zhaodao xiangguan neirong, kaolv tianjia gengduo
\* xuexi ziliao"
NoLocalAdvice ==
    <<"u672c", "u5730", "u77e5", "u8bc6", "u5e93", "u672a", "u627e", "u5230",
    "u76f8", "u5173", "u5185", "u5bb9", "uff0c", "u8003", "u8651",
    "u6dfb", "u52a0", "u66f4", "u591a", "u5b66", "u4e60", "u8d44",
    "u6599">>
\* "wangluo sousuo wei fanhui jieguo, jiancha wangluo lianjie huo changshi
\* butong guanjianci"
NoWebAdvice ==
    <<"u7f51", "u7edc", "u641c", "u7d22", "u672a", "u8fd4", "u56de", "u7ed3",
    "u679c", "uff0c", "u68c0", "u67e5", "u7f51", "u7edc", "u8fde",
    "u63a5", "u6216", "u5c1d", "u8bd5", "u4e0d", "u540c", "u5173",
    "u952e", "u8bcd">>
\* "jiansuo zhiliang pian di, jianyi youhua chaxun ci huo tiaozheng sousuo
\* celve"
LowQualityHybridAdvice ==
    <<"u68c0", "u7d22", "u8d28", "u91cf", "u504f", "u4f4e", "uff0c", "u5efa",
    "u8bae", "u4f18", "u5316", "u67e5", "u8be2", "u8bcd", "u6216",
    "u8c03", "u6574", "u641c", "u7d22", "u7b56", "u7565">>

\* [len(doc.page_content) for doc in docs]
content_lengths(docs) == Tuple([ i \in 1..Len(docs) |-> Len(docs[i].page_content) ])

RECURSIVE Sum(_)
Sum(ns) == IF ns = << >> THEN 0 ELSE Head(ns) + Sum(Tail(ns))

\* the recommendations a condition adds
Advice(condition, text) == IF condition THEN << text >> ELSE << >>

\* the mean and the score of analyze_retrieval_quality for a non-empty list
local_avg_length(docs) == RatDiv(Rat(Sum(content_lengths(docs))), Len(docs))
local_raw_score(docs) ==
    RatAdd(Rat(Len(docs) * 20), RatDiv(local_avg_length(docs), 20))

\* a local analyzer without the case of the empty list
quality_report_unguarded(query, docs) ==
    [ state |-> "local", query |-> query, num_results |-> Len(docs),
      avg_content_length |-> Rat(0), quality_score |-> Rat(Len(docs) * 20),
      recommendations |->
          Advice(Len(docs) < FewResults, FewResultsAdvice)
            \o Advice(TRUE, ShortFragmentsAdvice)
            \o Advice(Len(docs) * 20 < LowQuality, LowQualityAdvice) ]

\* a local analyzer that does not cut the score at 100
quality_report_uncapped(query, docs) ==
    [ state |-> "local", query |-> query, num_results |-> Len(docs),
      avg_content_length |-> IF docs = << >> THEN Rat(0) ELSE local_avg_length(docs),
      quality_score |-> IF docs = << >> THEN Rat(0) ELSE local_raw_score(docs),
      recommendations |-> << NoDocumentsAdvice >> ]

\* the report of analyze_retrieval_quality(query, docs)
quality_report(query, docs) ==
    IF docs = << >>
    THEN [ state |-> "local", query |-> query, num_results |-> 0,
           avg_content_length |-> Rat(0), quality_score |-> Rat(0),
           recommendations |-> << NoDocumentsAdvice >> ]
    ELSE LET avg_length == RatDiv(Rat(Sum(content_lengths(docs))), Len(docs))
             quality_score ==
                 RatMin(Rat(100), RatAdd(Rat(Len(docs) * 20), RatDiv(avg_length, 20)))
         IN  [ state |-> "local", query |-> query, num_results |-> Len(docs),
               avg_content_length |-> avg_length,
               quality_score |-> quality_score,
               recommendations |->
                   Advice(Len(docs) < FewResults, FewResultsAdvice)
                     \o Advice(RatLess(avg_length, Rat(ShortFragments)),
                               ShortFragmentsAdvice)
                     \o Advice(RatLess(quality_score, Rat(LowQuality)),
                               LowQualityAdvice),
               documents_preview |->
                   Tuple([ i \in 1..Min(3, Len(docs)) |->
                             SliceTo(docs[i].page_content, 100) \o << ".", ".", "." >> ]) ]

\* a hybrid analyzer that gives no advice for a low score
hybrid_report_without_advice(docs, use_local, use_web) ==
    [ state |-> "hybrid",
      quality_score |-> Rat(Min(50, Len(docs) * 10)),
      num_local_docs |-> 0, num_web_docs |-> 0,
      recommendations |-> << >> ]

\* doc.metadata.get("source_type"): None for a document that has no such key
source_type(doc) ==
    IF "source_type" \in DOMAIN doc.metadata THEN Some(doc.metadata.source_type)
    ELSE None

\* the report of _analyze_hybrid_retrieval(docs, use_local, use_web)
hybrid_report(docs, use_local, use_web) ==
    IF docs = << >>
    THEN [ state |-> "hybrid", quality_score |-> Rat(0),
           num_local_docs |-> 0, num_web_docs |-> 0,
           recommendations |-> << NoDocumentsHybridAdvice >> ]
    ELSE LET local_docs == SelectSeq(docs, LAMBDA doc : source_type(doc) = Some("local"))
             web_docs == SelectSeq(docs, LAMBDA doc : source_type(doc) = Some("web"))
             avg_length == RatDiv(Rat(Sum(content_lengths(docs))), Len(docs))
             base_score == Rat(Min(50, Len(docs) * 10))
             length_score == RatMin(Rat(30), RatDiv(avg_length, 50))
             diversity_score == Rat(Min(20, Len(local_docs) * 5 + Len(web_docs) * 5))
             quality_score == RatAdd(RatAdd(base_score, length_score), diversity_score)
         IN  [ state |-> "hybrid",
               quality_score |-> RatMin(Rat(100), quality_score),
               num_local_docs |-> Len(local_docs),
               num_web_docs |-> Len(web_docs),
               avg_content_length |-> avg_length,
               recommendations |->
                   Advice(Len(local_docs) = 0 /\ use_local, NoLocalAdvice)
                     \o Advice(Len(web_docs) = 0 /\ use_web, NoWebAdvice)
                     \o Advice(RatLess(quality_score, Rat(LowQuality)),
                               LowQualityHybridAdvice) ]

\* analyze_retrieval_quality(query, docs) on the passage list
analyze_retrieval_quality(query) ==
    /\ report.state = "none"
    /\ report' = quality_report(query, passages)
    /\ UNCHANGED passages
    /\ UNCHANGED << memVars, hybVars, conVars, retVars, appVars >>

\* _analyze_hybrid_retrieval(docs, use_local, use_web) on the passage list
_analyze_hybrid_retrieval(use_local, use_web) ==
    /\ report.state = "none"
    /\ report' = hybrid_report(passages, use_local, use_web)
    /\ UNCHANGED passages
    /\ UNCHANGED << memVars, hybVars, conVars, retVars, appVars >>

\* one more passage is retrieved for the request
passage_retrieved(doc) ==
    /\ report.state = "none"
    /\ passages' = Append(passages, doc)
    /\ UNCHANGED report
    /\ UNCHANGED << memVars, hybVars, conVars, retVars, appVars >>

\* passages explored: up to MaxPassages of them, of these lengths, local or web
MaxPassages == 5
PassageLengths == { 0, 200, 1600 }
TextOfLength == [ n \in PassageLengths |-> Tuple([ k \in 1..n |-> "t" ]) ]
Passages ==
    { TagLocal(LocalDocument(TextOfLength[n])) : n \in PassageLengths }
        \cup { WebDocument(RawResult(TextOfLength[n], search_engines[1]), QPast) :
                 n \in PassageLengths }

InitQuality ==
    /\ max_history = DefaultMaxHistory
    /\ max_context_length = DefaultMaxContextLength
    /\ clock = 0
    /\ current_session_id = _generate_session_id(0)
    /\ memory_file = NoFile
    /\ conversation_history = _load_history(NoFile, max_history)
    /\ last = [ op |-> "construct", raised |-> None ]
    /\ NoRetrieval
    /\ NoRequests
    /\ NoRetrieved
    /\ NoReport
    /\ NoReply

NextQuality ==
    \/ \E doc \in Passages :
          /\ Len(passages) < MaxPassages
          /\ passage_retrieved(doc)
    \/ \E query \in Queries : analyze_retrieval_quality(query)
    \/ \E use_local \in BOOLEAN, use_web \in BOOLEAN :
          _analyze_hybrid_retrieval(use_local, use_web)

SpecQuality == InitQuality /\ [][NextQuality]_vars

\* the mean content length of the passage list
MeanLength == RatDiv(Rat(Sum(content_lengths(passages))), Len(passages))

\* C18: for a non-empty list of n passages of mean content length m,
\* analyze_retrieval_quality reports the score min(50, 10 n) + min(30, m / 50).
C18_QualityScoreFormula ==
    (report.state = "local" /\ passages # << >>) =>
        RatEq(report.quality_score,
              RatAdd(Rat(Min(50, 10 * Len(passages))),
                     RatMin(Rat(30), RatDiv(MeanLength, 50))))

\* C19: for 5 passages of 200 characters each, analyze_retrieval_quality
\* reports 5 results, the score 80 and no recommendation.
C19_QualityScenario ==
    (/\ report.state = "local"
     /\ Len(passages) = 5
     /\ \A i \in 1..Len(passages) : Len(passages[i].page_content) = 200) =>
        /\ report.num_results = 5
        /\ RatEq(report.quality_score, Rat(80))
        /\ report.recommendations = << >>

\* C20: for both analyzers, a list of fewer than 3 passages has the score 0
\* exactly when it is empty, and a report with a score below 60 carries at
\* least one recommendation.
C20_LowScoreAdvice ==
    report.state # "none" =>
        /\ Len(passages) < 3 =>
              (RatEq(report.quality_score, Rat(0)) <=> passages = << >>)
        /\ RatLess(report.quality_score, Rat(60)) => report.recommendations # << >>

\* C20 witness: the hybrid report of a local and a web passage, asked for
\* both, whose only recommendation is the one for the low score.
C20_Witness ==
    /\ report.state = "hybrid"
    /\ Len(passages) = 2
    /\ report.num_local_docs = 1 /\ report.num_web_docs = 1
    /\ RatLess(Rat(0), report.quality_score)
    /\ RatLess(report.quality_score, Rat(60))
    /\ report.recommendations = << LowQualityHybridAdvice >>

-----------------------------------------------------------------------------
(* Claims about the recommendations and the range of the score *)

\* the place of a recommendation in the priority order: too few results, too
\* short content, low overall score, missing local documents, missing web
\* documents
Priority(text) ==
    CASE text = FewResultsAdvice -> 1
      [] text = ShortFragmentsAdvice -> 2
      [] text \in { LowQualityAdvice, LowQualityHybridAdvice } -> 3
      [] text = NoLocalAdvice -> 4
      [] text = NoWebAdvice -> 5
      [] OTHER -> 0

\* C21: in every quality report the recommendations are in priority order:
\* too few results, too short content, low overall score, then (hybrid
\* report) missing local documents, missing web documents.
C21_RecommendationOrder ==
    report.state # "none" =>
        \A i, j \in 1..Len(report.recommendations) :
            i < j => Priority(report.recommendations[i])
                        < Priority(report.recommendations[j])

\* C21 for the local analyzer alone
LocalRecommendationOrder ==
    report.state = "local" =>
        \A i, j \in 1..Len(report.recommendations) :
            i < j => Priority(report.recommendations[i])
                        < Priority(report.recommendations[j])


\* C22: for any query the report of an empty passage list has the score 0
\* and exactly one recommendation, the one for no documents, in the local
\* and in the hybrid analyzer.
C22_EmptyRetrievalReport ==
    (report.state # "none" /\ passages = << >>) =>
        /\ RatEq(report.quality_score, Rat(0))
        /\ Len(report.recommendations) = 1
        /\ report.state = "local" => report.recommendations = << NoDocumentsAdvice >>
        /\ report.state = "hybrid" =>
              report.recommendations = << NoDocumentsHybridAdvice >>

\* C22 witness: the local report of an empty list
C22_Witness ==
    /\ report.state = "local"
    /\ passages = << >>
    /\ report.num_results = 0
    /\ report.recommendations = << NoDocumentsAdvice >>

\* C23: the score of every report, local or hybrid, is in [0, 100].
C23_QualityScoreRange ==
    report.state # "none" =>
        /\ ~RatLess(report.quality_score, Rat(0))
        /\ ~RatLess(Rat(100), report.quality_score)

\* C23 witness: a local report whose count and length terms add up to more
\* than 100 and whose score is 100
C23_Witness ==
    /\ report.state = "local"
    /\ passages # << >>
    /\ RatLess(Rat(100), local_raw_score(passages))
    /\ RatEq(report.quality_score, Rat(100))


-----------------------------------------------------------------------------
(* _enhance_query over queries of all lengths around the threshold *)

\* characters added before and after the core of a query
MaxPad == 10

\* the cores of the queries: the five trigger terms, "xuni yuqi" (subjunctive
\* mood), "ying fa" (a character of one trigger followed by a character of
\* another), an English term and nothing
QueryCores ==
    Range(enhance_triggers)
        \cup { <<"u865a", "u62df", "u8bed", "u6c14">>,
               <<"u82f1", "u6cd5">>,
               <<"E", "n", "g", "l", "i", "s", "h", " ", "G", "r", "a", "m", "m", "a", "r">>,
               << >> }

\* "de" repeated n times
Padding(n) == Tuple([ k \in 1..n |-> "u7684" ])

EnhanceQueries ==
    { Padding(a) \o core \o Padding(b) :
         core \in QueryCores, a \in 0..MaxPad, b \in 0..MaxPad }

\* a call of _enhance_query(query)
enhance_query_called(query) ==
    /\ enhanced.state = "none"
    /\ enhanced' = [ state |-> "returned", query |-> query,
                     result |-> _enhance_query(query) ]
    /\ UNCHANGED reply
    /\ UNCHANGED << memVars, hybVars, conVars, retVars, quaVars >>

InitEnhance ==
    /\ max_history = DefaultMaxHistory
    /\ max_context_length = DefaultMaxContextLength
    /\ clock = 0
    /\ current_session_id = _generate_session_id(0)
    /\ memory_file = NoFile
    /\ conversation_history = _load_history(NoFile, max_history)
    /\ last = [ op |-> "construct", raised |-> None ]
    /\ NoRetrieval
    /\ NoRequests
    /\ NoRetrieved
    /\ NoReport
    /\ NoReply

NextEnhance == \E query \in EnhanceQueries : enhance_query_called(query)

SpecEnhance == InitEnhance /\ [][NextEnhance]_vars

\* the suffix of an enhanced query
EnhanceSuffix ==
    <<" ", "E", "n", "g", "l", "i", "s", "h", " ", "g", "r", "a", "m", "m", "a", "r", " ", "r", "u", "l", "e", "s", " ", "e", "x", "a", "m", "p", "l", "e", "s">>

\* C24: _enhance_query returns the query followed by " English grammar rules
\* examples" exactly when the query contains a trigger term and has fewer
\* than 20 characters, and the query unchanged otherwise.
C24_QueryEnhancement ==
    enhanced.state = "returned" =>
        LET query == enhanced.query
            triggered == \E trigger \in Range(enhance_triggers) : Contains(query, trigger)
        IN  /\ (triggered /\ Len(query) < 20) =>
                  enhanced.result = query \o EnhanceSuffix
            /\ ~(triggered /\ Len(query) < 20) => enhanced.result = query

\* C24 witness: a query of 19 characters with a trigger term, enhanced
C24_Witness ==
    /\ enhanced.state = "returned"
    /\ Len(enhanced.query) = 19
    /\ enhanced.result = enhanced.query \o EnhanceSuffix

-----------------------------------------------------------------------------
(* The chat entry points of the three applications *)

\* requests answered out of one conversation memory
MaxChats == 2
\* documents the local retriever finds for the requests of the applications
MaxAppDocs == 2

\* the characters str.strip() removes, among those of the queries explored
Whitespace == { " ", "\t", "\n", "\r", "u3000" }

RECURSIVE lstrip(_)
lstrip(s) == IF s # << >> /\ Head(s) \in Whitespace THEN lstrip(Tail(s)) ELSE s

RECURSIVE rstrip(_)
rstrip(s) ==
    IF s # << >> /\ s[Len(s)] \in Whitespace THEN rstrip(SubSeq(s, 1, Len(s) - 1))
    ELSE s

\* a strip that removes nothing
strip_nothing(s) == s

\* str.strip()
strip(s) == rstrip(lstrip(s))

\* the queries without a character other than whitespace
BlankQueries == { << >>, << " ", "\t", "u3000", "\r", "\n" >> }

AppQueries == BlankQueries \cup Queries

\* the answer the language model generates for a query
generated(query) == (CHOOSE e \in Exchanges : e.user_query = query).ai_response

\* the answer of _simple_answer without documents
NoMaterialsAnswer ==
    <<"u62b1", "u6b49", "uff0c", "u6ca1", "u6709", "u627e", "u5230", "u76f8",
      "u5173", "u7684", "u82f1", "u8bed", "u5b66", "u4e60", "u8d44", "u6599",
      "u3002", "u8bf7", "u5c1d", "u8bd5", "u5176", "u4ed6", "u95ee", "u9898",
      "u3002">>

\* the answers chat_with_memory can record for a query
AppAnswers(query) == { generated(query), NoMaterialsAnswer }

\* _extract_keywords(user_query + " " + ai_response), tabulated
AppKeywords ==
    [ q \in Queries |->
        [ r \in AppAnswers(q) |-> _extract_keywords(q \o << " " >> \o r) ] ]

\* _generate_summary(user_query, ai_response), tabulated
AppSummary ==
    [ q \in Queries |-> [ r \in AppAnswers(q) |-> _generate_summary(q, r) ] ]

\* the exception a language model that cannot be reached raises inside
\* invoke
llm_exception(llm_fails) ==
    IF llm_fails THEN Some("ConnectionError") ELSE None

\* "X qing shuru wenti" (please enter a question)
EnterQuestion == <<"u274c", " ", "u8bf7", "u8f93", "u5165", "u95ee", "u9898">>
\* "X cuowu: " (error: )
ErrorMarker == <<"u274c", " ", "u9519", "u8bef", ":", " ">>
\* str(e) of the exceptions: the ValueError of get_relevant_documents for
\* the unknown method and the error of a connection
str_exception(exc) ==
    IF exc = Some("ValueError")
    THEN <<"u672a", "u77e5", "u7684", "u68c0", "u7d22", "u65b9", "u6cd5", ":", " ", "b",
      "m", "2", "5">>
    ELSE <<"C", "o", "n", "n", "e", "c", "t", "i", "o", "n", " ", "r", "e", "f", "u", "s",
      "e", "d">>
\* the message of HybridRAGApp.chat_with_agent without documents
NoMaterialsHybrid ==
    <<"u274c", " ", "u62b1", "u6b49", "uff0c", "u6ca1", "u6709", "u627e", "u5230",
      "u76f8", "u5173", "u7684", "u5b66", "u4e60", "u8d44", "u6599", "u3002", "\n",
      "\n", "u1f4a1", " ", "*", "*", "u5efa", "u8bae", "uff1a", "*", "*", "\n", "1",
      ".", " ", "u5c1d", "u8bd5", "u4f7f", "u7528", "u4e0d", "u540c", "u7684",
      "u5173", "u952e", "u8bcd", "\n", "2", ".", " ", "u68c0", "u67e5", "u7f51",
      "u7edc", "u8fde", "u63a5", "u72b6", "u6001", "\n", "3", ".", " ", "u786e",
      "u4fdd", "u95ee", "u9898", "u4e0e", "u82f1", "u8bed", "u5b66", "u4e60",
      "u76f8", "u5173", "\n", "4", ".", " ", "u5c1d", "u8bd5", "u66f4", "u5177",
      "u4f53", "u7684", "u95ee", "u9898", "u63cf", "u8ff0">>
\* the message of the enhanced chain for a quality score under 30
LowQualityEnhanced ==
    <<"u274c", " ", "u62b1", "u6b49", "uff0c", "u6ca1", "u6709", "u627e", "u5230",
      "u76f8", "u5173", "u7684", "u5b66", "u4e60", "u8d44", "u6599", "u3002",
      "u8bf7", "u5c1d", "u8bd5", "uff1a", "\n", "1", ".", " ", "u4f7f", "u7528",
      "u66f4", "u5177", "u4f53", "u7684", "u5173", "u952e", "u8bcd", "\n", "2", ".",
      " ", "u68c0", "u67e5", "u95ee", "u9898", "u662f", "u5426", "u5728", "u82f1",
      "u8bed", "u5b66", "u4e60", "u8303", "u56f4", "u5185", "\n", "3", ".", " ",
      "u67e5", "u770b", "u77e5", "u8bc6", "u5e93", "u4e2d", "u662f", "u5426",
      "u5305", "u542b", "u76f8", "u5173", "u5185", "u5bb9">>
\* "X weizhaodao xiangguan wendang" (no related document found)
NotFoundEnhanced == <<"u274c", " ", "u672a", "u627e", "u5230", "u76f8", "u5173", "u6587", "u6863">>
\* the quality score under which the enhanced chain does not generate
MinEnhancedQuality == 30

\* return "X qing shuru wenti", {}
blank_reply ==
    [ text |-> EnterQuestion, info |-> None, metadata |-> None, calls |-> << >>,
      failed |-> None, raised |-> None, docs |-> << >>, exchange |-> None ]

\* except Exception as e: return f"X cuowu: {str(e)}", {}
error_reply(exc, calls, failed) ==
    [ text |-> IF except_Exception(exc) = None
               THEN ErrorMarker \o str_exception(exc) ELSE << >>,
      info |-> None, metadata |-> None, calls |-> calls,
      failed |-> Some(failed), raised |-> except_Exception(exc),
      docs |-> << >>, exchange |-> None ]

\* a chat_with_memory that hands the request to the memory although the
\* generation failed
memory_chat_recording_failures(query, use_memory, context, found, store_fails, llm_fails, elapsed) ==
    IF strip(query) = << >> THEN blank_reply
    ELSE [ error_reply(Some("ConnectionError"), << "retriever", "llm" >>, "llm")
             EXCEPT !.exchange =
                 Some([ user_query |-> query, ai_response |-> NoMaterialsAnswer,
                        metadata |-> None, retrieved_docs |-> None ]) ]

\* the body of ConversationRAGApp.chat_with_memory(query, use_memory) for a
\* conversation context and the documents the retriever finds: the text and
\* the dict returned, the calls made on the way and the exchange handed to
\* add_conversation_turn.  The block _format_memory_info appends to the
\* answer is kept as the values it renders.
memory_chat(query, use_memory, context, found, store_fails, llm_fails, elapsed) ==
    LET quality == quality_report(query, found)
        with_context == use_memory /\ context # << >>
        generates == with_context \/ found # << >>
        calls == << "retriever" >>
                   \o (IF with_context THEN << "context", "retriever" >> ELSE << >>)
                   \o (IF generates THEN << "llm" >> ELSE << >>)
        ai_response == IF generates THEN generated(query) ELSE NoMaterialsAnswer
    IN  IF strip(query) = << >> THEN blank_reply
        ELSE IF local_exception(store_fails) # None
        THEN error_reply(local_exception(store_fails), << "retriever" >>, "retriever")
        ELSE IF generates /\ llm_exception(llm_fails) # None
        THEN error_reply(llm_exception(llm_fails), calls, "llm")
        ELSE [ text |-> ai_response \o << "\n", "\n" >>,
               info |-> Some([ use_memory |-> use_memory,
                               context_used |-> context # << >> ]),
               metadata |-> Some([ retrieval_quality |-> quality,
                                   response_time |-> elapsed,
                                   num_retrieved_docs |-> Len(found),
                                   memory_enabled |-> use_memory ]),
               calls |-> calls, failed |-> None, raised |-> None, docs |-> found,
               exchange |->
                   IF use_memory
                   THEN Some([ user_query |-> query, ai_response |-> ai_response,
                               metadata |->
                                   Some({ << "response_time", elapsed >>,
                                          << "retrieval_quality", quality.quality_score >>,
                                          << "num_docs", Len(found) >> }),
                               retrieved_docs |->
                                   Some(Tuple([ i \in 1..Len(found) |->
                                                  found[i].metadata.source ])) ])
                   ELSE None ]

\* what a chat entry point returned, with the request it answered
Returned(app, query, request, out) ==
    [ state |-> "returned", app |-> app, query |-> query, request |-> request,
      text |-> out.text, info |-> out.info, metadata |-> out.metadata,
      calls |-> out.calls, failed |-> out.failed, raised |-> out.raised,
      docs |-> out.docs ]

\* ConversationRAGApp.chat_with_memory(query, use_memory), d ticks long, with
\* the passage store unreachable when store_fails, the language model when
\* llm_fails, and outcome what the storage does with the write
chat_with_memory(query, use_memory, store_fails, llm_fails, d, outcome) ==
    LET context ==
            IF use_memory /\ conversation_history # << >>
            THEN context_of(conversation_history, query, None, max_context_length,
                            _get_relevant_context(conversation_history,
                                QueryKeywords[query])).result
            ELSE << >>
        out == memory_chat(query, use_memory, context, index_result, store_fails,
                           llm_fails, d)
        now == clock + d
    IN  /\ clock' = now
        /\ reply' = Returned("memory", query,
                             [ use_memory |-> use_memory, store_fails |-> store_fails,
                               llm_fails |-> llm_fails ], out)
        /\ IF out.exchange = None
           THEN UNCHANGED << conversation_history, memory_file, last >>
           ELSE LET e == out.exchange[1]
                IN  \E keywords \in AppKeywords[e.user_query][e.ai_response] :
                       LET turn == [ user_query      |-> e.user_query,
                                     ai_response     |-> e.ai_response,
                                     timestamp       |-> now,
                                     session_id      |-> current_session_id,
                                     metadata        |-> OrDict(e.metadata),
                                     retrieved_docs  |-> OrList(e.retrieved_docs),
                                     keywords        |-> keywords,
                                     context_summary |->
                                         AppSummary[e.user_query][e.ai_response] ]
                           history == AppendTruncate(conversation_history, turn, max_history)
                       IN  /\ conversation_history' = history
                           /\ memory_file' = _save_history(history, memory_file, outcome)
                           /\ last' = [ op |-> "add", outcome |-> outcome,
                                        raised |-> except_Exception(save_exception(outcome)),
                                        overflow |-> Len(conversation_history) + 1 > max_history,
                                        stale |-> ~InStep(conversation_history, memory_file) ]
        /\ UNCHANGED << max_history, max_context_length, current_session_id, enhanced >>
        /\ UNCHANGED << hybVars, conVars, retVars, quaVars >>

\* the search modes of HybridRAGApp.chat_with_agent
SearchMethods == { "hybrid", "local_only", "web_only" }

\* the body of HybridRAGApp.chat_with_agent(query, use_local, use_web,
\* search_method).  The block _format_quality_info appends to the answer is
\* kept as the report it renders.
hybrid_chat(query, use_local, use_web, search_method, store_fails, failing, llm_fails) ==
    LET exc == CASE search_method = "hybrid" ->
                      hybrid_documents(query, use_local, use_web, store_fails, failing).raised
                 [] search_method = "local_only" -> local_exception(store_fails)
                 [] search_method = "web_only" -> None
        found ==
            CASE search_method = "hybrid" ->
                    hybrid_documents(query, use_local, use_web, store_fails, failing).docs
              [] search_method = "local_only" -> index_result
              [] search_method = "web_only" ->
                    _web_search(EnhancedQuery[query], engine_answers(failing))
        searched ==
            CASE search_method = "hybrid" ->
                    (IF use_local THEN << "retriever" >> ELSE << >>)
                      \o (IF use_web /\ enable_web_search THEN << "engines" >> ELSE << >>)
              [] search_method = "local_only" -> << "retriever" >>
              [] search_method = "web_only" -> << "engines" >>
        quality == hybrid_report(found, use_local, use_web)
    IN  IF strip(query) = << >> THEN blank_reply
        ELSE IF exc # None THEN error_reply(exc, searched, "retriever")
        ELSE IF found = << >>
        THEN [ text |-> NoMaterialsHybrid, info |-> None,
               metadata |-> Some([ retrieval_quality |-> quality,
                                   num_retrieved_docs |-> 0,
                                   search_method |-> search_method ]),
               calls |-> searched, failed |-> None, raised |-> None,
               docs |-> found, exchange |-> None ]
        ELSE IF llm_exception(llm_fails) # None
        THEN error_reply(llm_exception(llm_fails), Append(searched, "llm"), "llm")
        ELSE [ text |-> generated(query) \o << "\n", "\n" >>,
               info |-> Some(quality),
               metadata |-> Some([ retrieval_quality |-> quality,
                                   num_retrieved_docs |-> Len(found),
                                   search_method |-> search_method ]),
               calls |-> Append(searched, "llm"), failed |-> None, raised |-> None,
               docs |-> found, exchange |-> None ]

\* HybridRAGApp.chat_with_agent(query, use_local, use_web, search_method)
hybrid_chat_with_agent(query, use_local, use_web, search_method, store_fails, failing, llm_fails) ==
    /\ reply' = Returned("hybrid", query,
                         [ use_local |-> use_local, use_web |-> use_web,
                           search_method |-> search_method,
                           store_fails |-> store_fails, failing |-> failing,
                           llm_fails |-> llm_fails ],
                         hybrid_chat(query, use_local, use_web, search_method,
                                     store_fails, failing, llm_fails))
    /\ UNCHANGED enhanced
    /\ UNCHANGED << memVars, hybVars, conVars, retVars, quaVars >>

\* an entry point that consults the retriever before it tests the query
enhanced_chat_searching_first(query, method, found, store_fails, llm_fails) ==
    [ blank_reply EXCEPT !.calls = << "retriever" >> ]

\* the body of EnhancedRAGApp.chat_with_agent(query, method) for the
\* documents the retriever finds.  The note the enhanced chain appends to the
\* answer is kept as the report it renders.
enhanced_chat(query, method, found, store_fails, llm_fails) ==
    LET exc == IF method \notin known_methods THEN Some("ValueError")
               ELSE local_exception(store_fails)
        quality == quality_report(query, found)
        stops == IF method = "enhanced"
                 THEN RatLess(quality.quality_score, Rat(MinEnhancedQuality))
                 ELSE found = << >>
        calls == << "retriever", "retriever", "llm" >>
    IN  IF strip(query) = << >> THEN blank_reply
        ELSE IF exc # None THEN error_reply(exc, << "retriever" >>, "retriever")
        ELSE IF stops
        THEN [ text |-> IF method = "enhanced" THEN LowQualityEnhanced
                        ELSE NotFoundEnhanced,
               info |-> None, metadata |-> Some([ retrieval_quality |-> quality ]),
               calls |-> << "retriever" >>, failed |-> None, raised |-> None,
               docs |-> found, exchange |-> None ]
        ELSE IF llm_exception(llm_fails) # None
        THEN error_reply(llm_exception(llm_fails), calls, "llm")
        ELSE [ text |-> generated(query),
               info |-> IF method = "enhanced" THEN Some(quality) ELSE None,
               metadata |-> Some([ retrieval_quality |-> quality,
                                   num_retrieved_docs |-> Len(found) ]),
               calls |-> calls, failed |-> None, raised |-> None,
               docs |-> found, exchange |-> None ]

\* EnhancedRAGApp.chat_with_agent(query, method)
enhanced_chat_with_agent(query, method, store_fails, llm_fails) ==
    /\ reply' = Returned("enhanced", query,
                         [ method |-> method, store_fails |-> store_fails,
                           llm_fails |-> llm_fails ],
                         enhanced_chat(query, method, index_result, store_fails, llm_fails))
    /\ UNCHANGED enhanced
    /\ UNCHANGED << memVars, hybVars, conVars, retVars, quaVars >>

\* the applications start with the default memory, no history on file and
\* web search enabled
InitApp ==
    /\ max_history = DefaultMaxHistory
    /\ max_context_length = DefaultMaxContextLength
    /\ clock = 0
    /\ current_session_id = _generate_session_id(0)
    /\ memory_file = NoFile
    /\ conversation_history = _load_history(NoFile, max_history)
    /\ last = [ op |-> "construct", raised |-> None ]
    /\ enable_web_search = TRUE
    /\ index_result = << >>
    /\ engine_results = << << >>, << >> >>
    /\ retrieval = [ state |-> "none" ]
    /\ NoRequests
    /\ NoRetrieved
    /\ NoReport
    /\ NoReply

\* the documents and results found are fixed before the first request.  The
\* memory application, which has no web engine, answers up to MaxChats
\* requests of one tick each out of its memory; the other two keep nothing from one request
\* to the next and answer one.  A fault is an input where the request
\* consults the component.
NextApp ==
    \/ \E content \in NextLocalContents :
          /\ reply.state = "none"
          /\ Len(index_result) < MaxAppDocs
          /\ local_retriever_yields(content)
    \/ \E k \in 1..Len(search_engines) : \E content \in NextWebContents(k) :
          /\ reply.state = "none"
          /\ engine_yields(k, content)
    \/ \E query \in AppQueries, use_memory \in BOOLEAN, store_fails \in BOOLEAN,
          d \in { 1 }, outcome \in SaveOutcomes :
          \E llm_fails \in { FALSE, ~store_fails } :
          /\ engine_results = << << >>, << >> >>
          /\ IF reply.state = "none" THEN TRUE ELSE reply.app = "memory"
          /\ Len(conversation_history) < MaxChats
          /\ clock + d <= MaxClock
          /\ chat_with_memory(query, use_memory, store_fails, llm_fails, d, outcome)
    \/ \E query \in AppQueries, use_local \in BOOLEAN, use_web \in BOOLEAN,
          search_method \in SearchMethods :
          \E store_fails \in { FALSE, search_method = "local_only"
                                         \/ (search_method = "hybrid" /\ use_local) } :
              \E llm_fails \in { FALSE, ~(store_fails /\ search_method = "local_only") },
                 failing \in SUBSET { k \in 1..Len(search_engines) :
                                        \/ search_method = "web_only"
                                        \/ search_method = "hybrid" /\ use_web } :
                  /\ reply.state = "none"
                  /\ hybrid_chat_with_agent(query, use_local, use_web, search_method,
                                            store_fails, failing, llm_fails)
    \/ \E query \in AppQueries, method \in Methods, store_fails \in BOOLEAN :
          \E llm_fails \in { FALSE, ~store_fails } :
          /\ reply.state = "none"
          /\ engine_results = << << >>, << >> >>
          /\ enhanced_chat_with_agent(query, method, store_fails, llm_fails)

SpecApp == InitApp /\ [][NextApp]_vars

\* C25: when the language model fails inside chat_with_memory or
\* chat_with_agent, the caller receives the error marker followed by the
\* text of the error, no answer and no metadata, and the request appends no
\* turn to the history and writes nothing to the file.
C25_GenerationFailureAborts ==
    [][ (reply'.state = "returned" /\ reply'.failed = Some("llm")) =>
            /\ reply'.raised = None
            /\ SliceTo(reply'.text, Len(ErrorMarker)) = ErrorMarker
            /\ \A q \in Queries : ~Contains(reply'.text, generated(q))
            /\ reply'.metadata = None
            /\ conversation_history' = conversation_history
            /\ memory_file' = memory_file ]_vars

\* C25 witness: the language model failed for a request of the memory
\* application that followed a recorded one
C25_Witness ==
    /\ reply.state = "returned"
    /\ reply.app = "memory"
    /\ reply.failed = Some("llm")
    /\ reply.request.use_memory
    /\ conversation_history # << >>
    /\ memory_file.state = "document"

\* a query without a character other than whitespace
IsBlank(query) == \A i \in 1..Len(query) : query[i] \in Whitespace

\* C26: for a blank or whitespace-only query every chat entry point returns
\* the please-enter-a-question message and the empty dict without calling
\* the retriever, an engine or the language model, and leaves the history
\* and the file as they were.
C26_EmptyQueryRejected ==
    [][ (reply'.state = "returned" /\ IsBlank(reply'.query)) =>
            /\ reply'.text = EnterQuestion
            /\ reply'.metadata = None
            /\ reply'.calls = << >>
            /\ conversation_history' = conversation_history
            /\ memory_file' = memory_file ]_vars

\* C26 witness: a query of whitespace characters sent to the memory
\* application after a recorded request
C26_Witness ==
    /\ reply.state = "returned"
    /\ reply.app = "memory"
    /\ reply.query # << >>
    /\ IsBlank(reply.query)
    /\ reply.text = EnterQuestion
    /\ conversation_history # << >>

\* the document was returned by the local retriever
FromLocalIndex(doc) ==
    \E i \in 1..Len(index_result) :
        /\ index_result[i].page_content = doc.page_content
        /\ index_result[i].metadata.source = doc.metadata.source

\* the report of a request of the hybrid application that retrieved at
\* least one passage is consistent with the passages
ConsistentBreakdown ==
    LET quality == reply.metadata[1].retrieval_quality
    IN  /\ quality.num_local_docs + quality.num_web_docs = Len(reply.docs)
        /\ NoLocalAdvice \in Range(quality.recommendations) =>
               \A i \in 1..Len(reply.docs) : ~FromLocalIndex(reply.docs[i])

\* C30: for every HybridRAGApp.chat_with_agent request, in any search mode,
\* that retrieves at least one passage, num_local_docs + num_web_docs of the
\* report equals the number of passages retrieved, and the missing-local
\* recommendation is issued only if no passage came from the local index.
C30_BreakdownConsistency ==
    (/\ reply.state = "returned"
     /\ reply.app = "hybrid"
     /\ reply.docs # << >>
     /\ reply.metadata # None) => ConsistentBreakdown

\* the same in the modes hybrid and web_only
BreakdownConsistencyTagged ==
    (/\ reply.state = "returned"
     /\ reply.app = "hybrid"
     /\ reply.request.search_method # "local_only"
     /\ reply.docs # << >>
     /\ reply.metadata # None) => ConsistentBreakdown

-----------------------------------------------------------------------------
(* get_conversation_stats *)

\* turns of the histories the statistics are computed over
MaxStatsTurns == 3

\* the topics reported
TopTopics == 5

RECURSIVE dict_keys(_, _)
\* the keys of topic_counts in the order of their insertion: a keyword is
\* inserted when the loop over all_keywords meets it first
dict_keys(keywords, seen) ==
    IF keywords = << >> THEN << >>
    ELSE IF Head(keywords) \in seen THEN dict_keys(Tail(keywords), seen)
    ELSE << Head(keywords) >> \o dict_keys(Tail(keywords), seen \cup { Head(keywords) })

\* round(x, 1) of a rational whose ties are multiples of one quarter, in
\* tenths: the nearest tenth, the even one at a tie
round1(x) ==
    LET q == (10 * x[1]) \div x[2]
        r == (10 * x[1]) % x[2]
    IN  IF 2 * r < x[2] THEN q
        ELSE IF 2 * r > x[2] THEN q + 1
        ELSE IF q % 2 = 0 THEN q ELSE q + 1

\* the statistics without the cut of the ranking
conversation_stats_uncut(history, session_id) ==
    [ total_conversations |-> Len(history),
      current_session_length |-> 0,
      most_discussed_topics |->
          LET all_keywords == Join(<< >>, Tuple([ i \in 1..Len(history) |-> history[i].keywords ]))
              keys == dict_keys(all_keywords, { })
          IN  Tuple([ k \in 1..Len(keys) |-> [ topic |-> keys[k], count |-> 1 ] ]),
      avg_response_length |-> 0 ]

\* what get_conversation_stats returns; avg_response_length in tenths
conversation_stats(history, session_id) ==
    IF history = << >>
    THEN [ total_conversations |-> 0, current_session_length |-> 0,
           most_discussed_topics |-> << >>, avg_response_length |-> 0 ]
    ELSE LET all_keywords ==
                 Join(<< >>, Tuple([ i \in 1..Len(history) |-> history[i].keywords ]))
             keys == dict_keys(all_keywords, { })
             topic_counts ==
                 Tuple([ k \in 1..Len(keys) |->
                    << Cardinality({ i \in 1..Len(all_keywords) : all_keywords[i] = keys[k] }),
                       keys[k] >> ])
             most_discussed == SliceTo(SortDescending(topic_counts), TopTopics)
         IN  [ total_conversations |-> Len(history),
               current_session_length |->
                   Cardinality({ i \in 1..Len(history) :
                                   history[i].session_id = session_id }),
               most_discussed_topics |->
                   Tuple([ k \in 1..Len(most_discussed) |->
                             [ topic |-> most_discussed[k][2],
                               count |-> most_discussed[k][1] ] ]),
               avg_response_length |->
                   round1(RatDiv(Rat(Sum(Tuple([ i \in 1..Len(history) |->
                                                  Len(history[i].ai_response) ]))),
                                 Len(history))) ]

\* get_conversation_stats()
get_conversation_stats ==
    /\ last' = [ op |-> "stats",
                 result |-> conversation_stats(conversation_history, current_session_id) ]
    /\ UNCHANGED << max_history, max_context_length, conversation_history,
                    current_session_id, memory_file, clock >>
    /\ UNCHANGED << hybVars, conVars, retVars, quaVars, appVars >>

\* the format arguments explored
ExportFormats == { "json", "txt", "text", "xml", "JSON" }

\* strftime("%Y-%m-%d %H:%M:%S"): the time truncated to whole seconds
strftime_YmdHMS(t) == Str(t \div TicksPerSecond)

\* the character c repeated n times
Rule(c, n) == Tuple([ k \in 1..n |-> c ])

\* _export_as_json: the document json.dumps encodes
_export_as_json(history) ==
    [ format |-> "json",
      data |-> Tuple([ i \in 1..Len(history) |->
                  [ timestamp |-> isoformat(history[i].timestamp),
                    user      |-> history[i].user_query,
                    assistant |-> history[i].ai_response,
                    session   |-> history[i].session_id,
                    keywords  |-> history[i].keywords ] ]) ]

\* the lines _export_as_text writes for turn i
export_lines(history, i) ==
    << << "\n", "[" >> \o Str(i) \o << "]", " " >> \o strftime_YmdHMS(history[i].timestamp),
       <<"u7528", "u6237", ":", " ">> \o history[i].user_query,
       <<"u52a9", "u624b", ":", " ">> \o history[i].ai_response >>
      \o (IF history[i].keywords # << >>
          THEN << <<"u5173", "u952e", "u8bcd", ":", " ">>
                    \o Join(<< ",", " " >>, history[i].keywords) >>
          ELSE << >>)
      \o << Rule("-", 40) >>

\* _export_as_text
_export_as_text(history) ==
    [ format |-> "txt",
      text |-> Join(<< "\n" >>,
                   << Rule("=", 60), <<"u5bf9", "u8bdd", "u5386", "u53f2", "u5bfc", "u51fa">>, Rule("=", 60) >>
                     \o Join(<< >>, Tuple([ i \in 1..Len(history) |->
                                             export_lines(history, i) ]))) ]

\* an export that falls back on JSON for a format it does not know
export_outcome_defaulting(history, format) ==
    [ raised |-> None, result |-> Some(_export_as_json(history)) ]

\* the body of ConversationMemory.export_conversation(format): the exception
\* raised and the value returned
export_outcome(history, format) ==
    CASE format = "json" -> [ raised |-> None, result |-> Some(_export_as_json(history)) ]
      [] format = "txt" -> [ raised |-> None, result |-> Some(_export_as_text(history)) ]
      [] OTHER -> [ raised |-> Some("ValueError"), result |-> None ]

\* "daochu shibai: " (the export failed: ) and str(e)
ExportFailed ==
    <<"u5bfc", "u51fa", "u5931", "u8d25", ":", " ", "U", "n", "s", "u", "p", "p", "o", "r", "t", "e", "d", " ", "e", "x", "p", "o", "r", "t", " ", "f", "o", "r", "m", "a", "t">>

\* ConversationRAGApp.export_conversation(format): what the handler of the
\* application returns around the call
app_export(outcome) ==
    IF outcome.raised # None /\ except_Exception(outcome.raised) = None
    THEN [ failed |-> TRUE, text |-> ExportFailed ]
    ELSE [ failed |-> FALSE, text |-> << >> ]

\* export_conversation(format)
export_conversation(format) ==
    /\ LET outcome == export_outcome(conversation_history, format)
       IN  last' = [ op |-> "export", format |-> format,
                     raised |-> outcome.raised, result |-> outcome.result,
                     app |-> app_export(outcome) ]
    /\ UNCHANGED << max_history, max_context_length, conversation_history,
                    current_session_id, memory_file, clock >>
    /\ UNCHANGED << hybVars, conVars, retVars, quaVars, appVars >>

InitStats ==
    /\ max_history = DefaultMaxHistory
    /\ max_context_length = DefaultMaxContextLength
    /\ clock = 0
    /\ current_session_id = _generate_session_id(0)
    /\ memory_file = NoFile
    /\ conversation_history = _load_history(NoFile, max_history)
    /\ last = [ op |-> "construct", raised |-> None ]
    /\ NoRetrieval
    /\ NoRequests
    /\ NoRetrieved
    /\ NoReport
    /\ NoReply

\* a memory that records up to MaxStatsTurns exchanges, one tick apart, and
\* is asked for its statistics or for an export at any point
NextStats ==
    \/ \E e \in StatsExchanges \cup { x \in Exchanges : x.user_query = QPast } :
          \E keywords \in KeywordsOf[e] :
              /\ Len(conversation_history) < MaxStatsTurns
              /\ add_conversation_turn(e, 1, keywords, "written")
    \/ get_conversation_stats
    \/ \E format \in ExportFormats : export_conversation(format)

SpecStats == InitStats /\ [][NextStats]_vars

\* the number of turns of the history whose keyword list contains the keyword
TurnsWith(keyword) ==
    Cardinality({ i \in 1..Len(conversation_history) :
                    keyword \in Range(conversation_history[i].keywords) })

\* the place of the first occurrence of the keyword when the history is
\* scanned from the oldest turn to the newest, keyword by keyword
FirstSeen(keyword) ==
    LET i == CHOOSE n \in 1..Len(conversation_history) :
                 /\ keyword \in Range(conversation_history[n].keywords)
                 /\ \A m \in 1..(n - 1) :
                        keyword \notin Range(conversation_history[m].keywords)
        at == CHOOSE n \in 1..Len(conversation_history[i].keywords) :
                 conversation_history[i].keywords[n] = keyword
    IN  << i, at >>

\* the keywords of the turns of the history
HistoryKeywords ==
    UNION { Range(conversation_history[i].keywords) : i \in 1..Len(conversation_history) }

\* C27: get_conversation_stats reports at most 5 keywords, each with the
\* number of turns of the history whose keyword list contains it, in order
\* of non-increasing count, keywords of equal count in the order of their
\* first occurrence in the history scanned from the oldest turn to the
\* newest; no keyword left out has a count higher than a reported one.
C27_KeywordRanking ==
    last.op = "stats" =>
        LET ranking == last.result.most_discussed_topics
            reported == { ranking[k].topic : k \in 1..Len(ranking) }
        IN  /\ Len(ranking) <= 5
            /\ reported \subseteq HistoryKeywords
            /\ \A k \in 1..Len(ranking) : ranking[k].count = TurnsWith(ranking[k].topic)
            /\ \A j, k \in 1..Len(ranking) :
                   j < k =>
                     \/ ranking[j].count > ranking[k].count
                     \/ /\ ranking[j].count = ranking[k].count
                        /\ LET a == FirstSeen(ranking[j].topic)
                               b == FirstSeen(ranking[k].topic)
                           IN  a[1] < b[1] \/ (a[1] = b[1] /\ a[2] < b[2])
            /\ \A keyword \in HistoryKeywords \ reported :
                   \A k \in 1..Len(ranking) : TurnsWith(keyword) <= ranking[k].count

\* C27 witness: a ranking of 5 keywords, out of more, with counts that
\* differ and counts that tie
C27_Witness ==
    /\ last.op = "stats"
    /\ Len(last.result.most_discussed_topics) = 5
    /\ Cardinality(HistoryKeywords) > 5
    /\ last.result.most_discussed_topics[1].count > last.result.most_discussed_topics[5].count
    /\ last.result.most_discussed_topics[1].count = last.result.most_discussed_topics[2].count

\* the formats export_conversation serializes the history in: JSON and text
SupportedFormats == { "json", "txt" }

\* C28: export_conversation succeeds for exactly the formats json and text;
\* for any other format it raises the unsupported-format error, which
\* reaches the caller (the application returns it as a failure message),
\* returns no serialization, and leaves the history as it was.
C28_ExportFormats ==
    [][ last'.op = "export" =>
          /\ last'.format \in SupportedFormats =>
                 /\ last'.raised = None
                 /\ last'.result # None
                 /\ last'.result[1].format = last'.format
                 /\ ~last'.app.failed
          /\ last'.format \notin SupportedFormats =>
                 /\ last'.raised = Some("ValueError")
                 /\ last'.result = None
                 /\ last'.app.failed
          /\ conversation_history' = conversation_history
          /\ memory_file' = memory_file ]_vars

\* C28 witness: an export of a history of two turns in a format that is
\* not known
C28_Witness ==
    /\ last.op = "export"
    /\ last.format = "xml"
    /\ last.raised = Some("ValueError")
    /\ Len(conversation_history) = 2

-----------------------------------------------------------------------------
(* The turns a context is assembled from *)

\* the snippets of the turns of the ranking of the call, in ranking order
RankedSnippets ==
    Tuple([ k \in 1..Len(last.relevant) |->
              _format_context_turn(conversation_history[last.relevant[k]]) ])

\* the context of the call is assembled from the longest prefix of the
\* ranking of the last 5 turns whose snippets stay within the limit
PrefixWithin(limit) ==
    LET snippets == RankedSnippets
        n == Len(last.context_parts)
    IN  /\ \A k \in 1..(Len(last.relevant) - 1) :
               total_score(conversation_history, QueryKeywords[last.current_query],
                           conversation_history[last.relevant[k]])
                 >= total_score(conversation_history, QueryKeywords[last.current_query],
                                conversation_history[last.relevant[k + 1]])
        /\ n <= Len(snippets)
        /\ last.context_parts = SubSeq(snippets, 1, n)
        /\ SumLen(SubSeq(snippets, 1, n)) <= limit
        /\ n < Len(snippets) => SumLen(SubSeq(snippets, 1, n + 1)) > limit
        /\ (snippets # << >> /\ Len(snippets[1]) > limit) => last.result = << >>
        /\ \A k \in 1..Len(last.relevant) :
               /\ last.relevant[k] \in 1..Len(conversation_history)
               /\ last.relevant[k] > Len(conversation_history) - 5

\* C29: the turns get_context_for_query includes are a contiguous prefix of
\* the score-descending ranking of the last 5 turns: no turn ranked after
\* the first one whose snippet takes the running length over max_length is
\* included, the result is empty when the snippet of the first turn alone
\* exceeds max_length, and no turn older than the last 5 is included.
C29_ContextPrefix ==
    last.op = "context" =>
        PrefixWithin(IF last.max_length = None THEN max_context_length
                     ELSE last.max_length[1])

\* the same for the calls whose max_length is left out or is not 0
ContextPrefixNonZero ==
    (last.op = "context" /\ last.max_length # Some(0)) =>
        PrefixWithin(IF last.max_length = None THEN max_context_length
                     ELSE last.max_length[1])

====
